---- MODULE Spec2Model ----
(***************************************************************************)
(* Declarative SQLite schema migration planner (SqliteMigration) and the   *)
(* migration runner (runSqlMigrations) of the Calljmp CLI.                 *)
(*                                                                         *)
(* SQL text is modelled structurally: a CREATE statement is a record that  *)
(* carries what the statement declares plus a "style" field standing for   *)
(* the whitespace, comments and identifier quoting that normalizeSql       *)
(* erases.  Every other statement is a record tagged by its "op".          *)
(***************************************************************************)
EXTENDS Integers, Sequences, FiniteSets, TLC

VARIABLES
  live,             \* the database the plan is applied to (schema and rows)
  before,           \* the same database as the schema command found it
  target,           \* SqliteMigration._target: in-memory copy of the live schema
  pristine,         \* the in-memory database built from the schema files
  steps,            \* SqliteMigration._steps
  recreatedTables,  \* the Set prepare() threads through the four diffs
  batchOk,          \* outcome of db.batch(migration.statements())
  ppc               \* position of the schema command

pvars == <<live, before, target, pristine, steps, recreatedTables, batchOk, ppc>>

VARIABLES
  dir,               \* the migrations directory, in readdir order
  rdb,               \* the database the runner migrates
  rpc,               \* position of runSqlMigrations
  migrations,        \* collectMigrations(cfg)
  appliedMigrations, \* the rows read before runSqlMigrations is called
  idx,               \* position of the loop over migrations
  logged,            \* what the loop reported, in order
  handed,            \* the batches handed to executeQueries in this run
  execCount,         \* per file, the batches of it that succeeded so far
  runs,              \* invocations so far
  edited             \* the files edited since the start

rvars == <<dir, rdb, rpc, migrations, appliedMigrations, idx, logged, handed,
           execCount, runs, edited>>

VARIABLES
  nsql,              \* a SQL text given to normalizeSql
  nresults           \* what normalizeSql returned, applied again to its result

nvars == <<nsql, nresults>>

VARIABLES
  sinput,            \* a SQL text given to splitSqlQuery, as the statements it is made of
  sresult,           \* what trimSqlQuery and splitSqlQuery made of it
  spc                \* position of the caller of splitSqlQuery

svars == <<sinput, sresult, spc>>

VARIABLES
  mpc,               \* position of migrateRemote's executeQueries
  mbatch,            \* which call of executeQueries this is, in the order of the run
  mstate,            \* executeQueries: state
  minfo,             \* executeQueries: migrationInfo
  mlog,              \* the requests sent so far, each with the response it got
  serverDone         \* the server has finished: every status it reports is completed

mvars == <<mpc, mbatch, mstate, minfo, mlog, serverDone>>

vars == <<pvars, rvars, nvars, svars, mvars>>

\* normalizeSql not being exercised on a text of its own
NormalizerIdle == nsql = <<>> /\ nresults = <<>>

\* splitSqlQuery not being exercised on a text of its own
SplitterIdle ==
  /\ sinput = [wrapped |-> FALSE, stmts |-> <<>>]
  /\ sresult = <<>>
  /\ spc = "idle"

NoBookmark == ""

\* no remote apply going on
RemoteIdle ==
  /\ mpc = "idle"
  /\ mbatch = 0
  /\ mstate = [completed |-> FALSE, bookmark |-> NoBookmark]
  /\ minfo = [completed |-> FALSE, uploadUrl |-> FALSE, filename |-> FALSE]
  /\ mlog = {}
  /\ serverDone = FALSE

-----------------------------------------------------------------------------
(* Generic helpers on sequences used as ordered maps and ordered sets.      *)

Range(s) == {s[i] : i \in DOMAIN s}

Reverse(s) == [i \in 1..Len(s) |-> s[Len(s) + 1 - i]]

Filter(s, P(_)) == SelectSeq(s, P)

RECURSIVE Flatten(_)
Flatten(ss) == IF ss = <<>> THEN <<>> ELSE Head(ss) \o Flatten(Tail(ss))

RECURSIVE Dedup(_)
Dedup(s) ==
  IF s = <<>> THEN <<>>
  ELSE LET rest == Dedup(SelectSeq(Tail(s), LAMBDA x : x # Head(s)))
       IN <<Head(s)>> \o rest

\* Map.has / Map.get on a sequence of [name, sql] rows keyed by name
Has(m, k) == \E i \in DOMAIN m : m[i].name = k
Get(m, k) == m[CHOOSE i \in DOMAIN m : m[i].name = k].sql
Keys(m) == [i \in DOMAIN m |-> m[i].name]

-----------------------------------------------------------------------------
(* SQL text.                                                                *)

NoDefault == "<none>"

Col(n, t, nn, d) == [name |-> n, type |-> t, notnull |-> nn, dflt |-> d]

\* CREATE TABLE name (cols..., FOREIGN KEY(id) REFERENCES f(id) [ON DELETE CASCADE] for f in fks)
CreateTable(n, cols, fks, cascade, style) ==
  [op |-> "CREATE", type |-> "table", name |-> n, cols |-> cols, fks |-> fks,
   cascade |-> cascade, style |-> style]

\* CREATE INDEX name ON tbl(body) / CREATE TRIGGER name AFTER INSERT ON tbl BEGIN body END
\* / CREATE VIEW name AS SELECT body FROM tbl
CreateObject(type, n, tbl, body, style) ==
  [op |-> "CREATE", type |-> type, name |-> n, on |-> tbl, body |-> body,
   style |-> style]

DropTable(t) == [op |-> "DROP TABLE", name |-> t]
DropObject(type, n) == [op |-> "DROP", type |-> type, name |-> n]
RenameTable(t, to) == [op |-> "RENAME", name |-> t, to |-> to]
AddColumn(t, col) == [op |-> "ADD COLUMN", name |-> t, col |-> col]
InsertSelect(t, cols, from) == [op |-> "INSERT SELECT", name |-> t, cols |-> cols, from |-> from]
PragmaDefer(on) == [op |-> "PRAGMA defer_foreign_keys", on |-> on]
Comment(text) == [op |-> "--", text |-> text]
Blank == [op |-> ""]

\* normalizeSql: strips comments, collapses whitespace, unquotes identifiers.
\* Only CREATE text copied from a schema carries such style.
normalizeSql(sql) ==
  IF "style" \in DOMAIN sql THEN [sql EXCEPT !.style = "plain"] ELSE sql

-----------------------------------------------------------------------------
(* A SQLite database: sqlite_master in rowid order, and the rows of every  *)
(* table.  A row maps column names to values; NULL is the string "NULL".   *)

EmptyDb == [master |-> <<>>, rows |-> <<>>]

\* names matching LIKE "sqlite_%" among the names the model uses
SqliteInternal == {"sqlite_sequence"}

MasterRow(sql) == [type |-> sql.type, name |-> sql.name, sql |-> sql]

HasTable(db, t) == \E i \in DOMAIN db.master : db.master[i].type = "table" /\ db.master[i].name = t
HasName(db, n) == \E i \in DOMAIN db.master : db.master[i].name = n
TableSql(db, t) ==
  db.master[CHOOSE i \in DOMAIN db.master : db.master[i].type = "table" /\ db.master[i].name = t].sql
TableNames(db) == {db.master[i].name : i \in {j \in DOMAIN db.master : db.master[j].type = "table"}}

\* SELECT name, sql FROM sqlite_master WHERE type = ? AND sql IS NOT NULL
\*   AND name NOT LIKE "sqlite_%"
objects(db, type) ==
  LET hit == SelectSeq(db.master, LAMBDA r : r.type = type /\ r.name \notin SqliteInternal)
  IN [i \in DOMAIN hit |-> [name |-> hit[i].name, sql |-> hit[i].sql]]

\* PRAGMA table_info(table): no rows when the table does not exist
columns(db, table) == IF HasTable(db, table) THEN TableSql(db, table).cols ELSE <<>>

\* PRAGMA foreign_key_list(table)
foreignKeys(db, table) == IF HasTable(db, table) THEN TableSql(db, table).fks ELSE <<>>

ColNames(cols) == [i \in DOMAIN cols |-> cols[i].name]

-----------------------------------------------------------------------------
(* Foreign-key graph, as the insertion-ordered Map<string, Set<string>> of *)
(* the source: a sequence of [k, v] with v a duplicate-free sequence.      *)

MapHas(g, k) == \E i \in DOMAIN g : g[i].k = k
MapGet(g, k) == IF MapHas(g, k) THEN g[CHOOSE i \in DOMAIN g : g[i].k = k].v ELSE <<>>
MapAdd(g, k, x) ==
  IF MapHas(g, k)
  THEN [i \in DOMAIN g |->
          IF g[i].k = k /\ x \notin Range(g[i].v) THEN [g[i] EXCEPT !.v = Append(@, x)] ELSE g[i]]
  ELSE Append(g, [k |-> k, v |-> <<x>>])

RECURSIVE AddEdges(_, _, _)
AddEdges(g, parents, child) ==
  IF parents = <<>> THEN g
  ELSE AddEdges(MapAdd(g, Head(parents), child), Tail(parents), child)

RECURSIVE GraphOver(_, _, _)
GraphOver(g, db, tbls) ==
  IF tbls = <<>> THEN g
  ELSE GraphOver(AddEdges(g, foreignKeys(db, Head(tbls)), Head(tbls)), db, Tail(tbls))

\* graph[referenced table] = the tables that reference it
buildForeignKeyGraph(db) == GraphOver(<<>>, db, Keys(objects(db, "table")))

RECURSIVE ReverseInto(_, _)
ReverseInto(acc, edges) ==
  IF edges = <<>> THEN acc
  ELSE ReverseInto(MapAdd(acc, Head(edges)[2], Head(edges)[1]), Tail(edges))

\* reversed[referencing table] = the tables it references
reverseGraph(graph) ==
  ReverseInto(<<>>,
    Flatten([i \in DOMAIN graph |-> [j \in DOMAIN graph[i].v |-> <<graph[i].k, graph[i].v[j]>>]]))

RECURSIVE fdVisit(_, _, _), fdVisitAll(_, _, _, _)
fdVisit(currentTable, rev, dependentTables) ==
  IF currentTable \in Range(dependentTables) THEN dependentTables
  ELSE fdVisitAll(rev, currentTable, rev, Append(dependentTables, currentTable))
fdVisitAll(entries, currentTable, rev, dependentTables) ==
  IF entries = <<>> THEN dependentTables
  ELSE LET e == Head(entries)
           d == IF currentTable \in Range(e.v) THEN fdVisit(e.k, rev, dependentTables)
                ELSE dependentTables
       IN fdVisitAll(Tail(entries), currentTable, rev, d)

\* adds table and every table that transitively references it
findDependentTablesDirectOnly(table, reverseForeignKeyGraph, dependentTables) ==
  IF table \in Range(dependentTables) THEN dependentTables
  ELSE LET rev  == reverseForeignKeyGraph
           seen == Append(dependentTables, table)
           kids == SelectSeq([i \in DOMAIN rev |-> rev[i].k],
                             LAMBDA k : table \in Range(MapGet(rev, k)) /\ k \notin Range(seen))
       IN seen \o kids
findDependentTables(table, reverseForeignKeyGraph, dependentTables) ==
  fdVisit(table, reverseForeignKeyGraph, dependentTables)

RECURSIVE tsVisit(_, _, _), tsVisitAll(_, _, _)
tsVisit(node, graph, acc) ==
  IF node \in acc.visited THEN acc
  ELSE LET a1 == [acc EXCEPT !.visited = @ \cup {node}]
           a2 == tsVisitAll(MapGet(graph, node), graph, a1)
       IN [a2 EXCEPT !.result = Append(@, node)]
tsVisitAll(nodes, graph, acc) ==
  IF nodes = <<>> THEN acc
  ELSE tsVisitAll(Tail(nodes), graph, tsVisit(Head(nodes), graph, acc))

topologicalSortPostOrder(tables, foreignKeyGraph) ==
  tsVisitAll(tables, foreignKeyGraph, [visited |-> {}, result |-> <<>>]).result
topologicalSort(tables, foreignKeyGraph) ==
  Reverse(tsVisitAll(tables, foreignKeyGraph, [visited |-> {}, result |-> <<>>]).result)

-----------------------------------------------------------------------------
(* SqliteMigration: the planner.                                            *)

Step(type, name, statements, defer) ==
  [type |-> type, name |-> name, statements |-> statements, deferForeignKeys |-> defer]

isAddOnlyColumns(pr, cur, table) ==
  LET newCols == columns(pr, table)
      oldCols == columns(cur, table)
      removed == SelectSeq(oldCols, LAMBDA col : ~\E i \in DOMAIN newCols : newCols[i].name = col.name)
      added   == SelectSeq(newCols, LAMBDA col : ~\E i \in DOMAIN oldCols : oldCols[i].name = col.name)
      safe    == /\ Len(removed) = 0
                 /\ \A i \in DOMAIN added : added[i].dflt # NoDefault \/ ~added[i].notnull
  IN [addOnly |-> safe, added |-> added]

\* the three diffs of _migrateTables, in Map iteration order
removedTables(pr, cur) ==
  SelectSeq(Keys(objects(cur, "table")), LAMBDA k : ~Has(objects(pr, "table"), k))
addedTables(pr, cur) ==
  SelectSeq(Keys(objects(pr, "table")), LAMBDA k : ~Has(objects(cur, "table"), k))
modifiedTablesRaw(pr, cur) ==
  SelectSeq(Keys(objects(pr, "table")),
            LAMBDA k : /\ Has(objects(cur, "table"), k)
                       /\ Get(objects(cur, "table"), k) # Get(objects(pr, "table"), k))
modifiedTables(pr, cur) ==
  SelectSeq(Keys(objects(pr, "table")),
            LAMBDA k : /\ Has(objects(cur, "table"), k)
                       /\ normalizeSql(Get(objects(cur, "table"), k))
                            # normalizeSql(Get(objects(pr, "table"), k)))

sortedTables(pr, cur) ==
  topologicalSort(Dedup(modifiedTables(pr, cur) \o removedTables(pr, cur) \o addedTables(pr, cur)),
                  buildForeignKeyGraph(pr))

\* the loop of lines 426-442 run over the sorted tables: the ALTER steps it
\* pushes and the recreated set it grows
RECURSIVE modifyLoop(_, _, _, _)
modifyLoop(tbls, pr, cur, acc) ==
  IF tbls = <<>> THEN acc
  ELSE LET table == Head(tbls)
           r == isAddOnlyColumns(pr, cur, table)
           stmts == [i \in DOMAIN r.added |-> AddColumn(table, r.added[i])]
           next ==
             IF table \notin Range(modifiedTables(pr, cur)) THEN acc
             ELSE IF r.addOnly
               THEN [acc EXCEPT !.steps = Append(@, Step("table", table, stmts, FALSE))]
               ELSE [acc EXCEPT !.recreated =
                       findDependentTables(table, reverseGraph(buildForeignKeyGraph(pr)), @)]
       IN modifyLoop(Tail(tbls), pr, cur, next)

recreationOrder(pr, recreated) == topologicalSort(recreated, buildForeignKeyGraph(pr))

commonCols(pr, cur, table) ==
  SelectSeq(columns(cur, table),
            LAMBDA oldCol : \E i \in DOMAIN columns(pr, table) : columns(pr, table)[i].name = oldCol.name)

\* lines 444-494: rename all, create all, copy all, drop all in reverse
recreateStepsPerTable(pr, cur, order) ==
  Flatten([i \in DOMAIN order |->
    <<Step("table", "migrating " \o order[i] \o " to new schema",
           <<RenameTable(order[i], order[i] \o "_old")>>, TRUE),
      Step("table", "preparing new " \o order[i], <<Get(objects(pr, "table"), order[i])>>, FALSE)>>
    \o (IF Len(commonCols(pr, cur, order[i])) > 0
        THEN <<Step("table", "copying data back to " \o order[i],
                    <<InsertSelect(order[i], ColNames(commonCols(pr, cur, order[i])),
                                   order[i] \o "_old")>>, FALSE)>>
        ELSE <<>>)
    \o <<Step("table", "dropping old " \o order[i], <<DropTable(order[i] \o "_old")>>, FALSE)>>])
recreateSteps(pr, cur, order) ==
  LET renames == [i \in DOMAIN order |->
                    Step("table", "migrating " \o order[i] \o " to new schema",
                         <<RenameTable(order[i], order[i] \o "_old")>>, TRUE)]
      creates == [i \in DOMAIN order |->
                    Step("table", "preparing new " \o order[i],
                         <<Get(objects(pr, "table"), order[i])>>, FALSE)]
      copies  == Flatten([i \in DOMAIN order |->
                    IF Len(commonCols(pr, cur, order[i])) > 0
                    THEN <<Step("table", "copying data back to " \o order[i],
                                <<InsertSelect(order[i], ColNames(commonCols(pr, cur, order[i])),
                                               order[i] \o "_old")>>, FALSE)>>
                    ELSE <<>>])
      dropOrder == Reverse(order)
      drops   == [i \in DOMAIN dropOrder |->
                    Step("table", "dropping old " \o dropOrder[i],
                         <<DropTable(dropOrder[i] \o "_old")>>, FALSE)]
  IN renames \o creates \o copies \o drops

\* _migrateTables: [steps, recreated]
migrateTables(pr, cur) ==
  LET sorted  == sortedTables(pr, cur)
      removed == removedTables(pr, cur)
      added   == addedTables(pr, cur)
      dropT   == SelectSeq(sorted, LAMBDA t : t \in Range(removed))
      addT    == SelectSeq(sorted, LAMBDA t : t \in Range(added))
      phaseD  == [i \in DOMAIN dropT |-> Step("table", dropT[i], <<DropTable(dropT[i])>>, FALSE)]
      phaseA  == [i \in DOMAIN addT |->
                    Step("table", addT[i], <<Get(objects(pr, "table"), addT[i])>>, FALSE)]
      m       == modifyLoop(sorted, pr, cur, [steps |-> <<>>, recreated |-> <<>>])
      order   == recreationOrder(pr, m.recreated)
  IN [steps |-> phaseD \o phaseA \o m.steps \o recreateSteps(pr, cur, order),
      recreated |-> m.recreated]

\* trigger names of the model whose last two letters are ON in upper case
EndsWithOn == {"log_deletion"}

\* select lists of the model that end with a closing parenthesis
EndsWithParen == {"count(id)"}

\* the owning table the regexes of extractTable capture in the upper-cased
\* text.  index: the word after INDEX <name> ON.  trigger: the word after the
\* first ON followed by white space, which is the timing keyword when the
\* trigger's name ends with ON.  view: the word after the first FROM that has
\* white space before it, and normalizeSql has taken that white space away
\* when the select list ends with a parenthesis.
extractTable(sql) ==
  CASE sql.type = "trigger" /\ sql.name \in EndsWithOn -> "after"
    [] sql.type = "view" /\ sql.style = "plain" /\ sql.body \in EndsWithParen -> ""
    [] OTHER -> sql.on

objDropped(type, pr, cur) ==
  SelectSeq(Keys(objects(cur, type)), LAMBDA k : ~Has(objects(pr, type), k))
objAdded(type, pr, cur) ==
  SelectSeq(Keys(objects(pr, type)), LAMBDA k : ~Has(objects(cur, type), k))
objModified(type, pr, cur, recreated) ==
  SelectSeq(Keys(objects(pr, type)),
            LAMBDA k : /\ Has(objects(cur, type), k)
                       /\ \/ normalizeSql(Get(objects(cur, type), k))
                               # normalizeSql(Get(objects(pr, type), k))
                          \/ extractTable(Get(objects(pr, type), k)) \in Range(recreated))

\* _migrateObjects
migrateObjects(type, pr, cur, recreated) ==
  LET dropped  == objDropped(type, pr, cur)
      added    == objAdded(type, pr, cur)
      modified == objModified(type, pr, cur, recreated)
      def(k)   == Get(objects(pr, type), k)
  IN [i \in DOMAIN dropped |-> Step(type, dropped[i], <<DropObject(type, dropped[i])>>, FALSE)]
     \o [i \in DOMAIN added |-> Step(type, added[i], <<def(added[i])>>, FALSE)]
     \o Flatten([i \in DOMAIN modified |->
          (IF type = "view" \/ extractTable(def(modified[i])) \notin Range(recreated)
           THEN <<Step(type, modified[i], <<DropObject(type, modified[i])>>, FALSE)>>
           ELSE <<>>)
          \o <<Step(type, modified[i], <<def(modified[i])>>, FALSE)>>])

\* prepare(schema): the steps pushed by the four diffs
prepareSteps(pr, cur) ==
  LET t == migrateTables(pr, cur)
  IN t.steps
     \o migrateObjects("index", pr, cur, t.recreated)
     \o migrateObjects("trigger", pr, cur, t.recreated)
     \o migrateObjects("view", pr, cur, t.recreated)

\* _generate(pretty)
generateNoPragma(stps, pretty) ==
  Flatten([i \in DOMAIN stps |->
     (IF pretty THEN <<Comment(<<stps[i].type, stps[i].name>>)>> ELSE <<>>)
     \o [j \in DOMAIN stps[i].statements |-> normalizeSql(stps[i].statements[j])]
     \o (IF pretty THEN <<Blank>> ELSE <<>>)])
generate(stps, pretty) ==
  LET deferForeignKeys == \E i \in DOMAIN stps : stps[i].deferForeignKeys
      head == IF deferForeignKeys
              THEN <<PragmaDefer(TRUE)>> \o (IF pretty THEN <<Blank>> ELSE <<>>)
              ELSE <<>>
      body == Flatten([i \in DOMAIN stps |->
                (IF pretty THEN <<Comment(<<stps[i].type, stps[i].name>>)>> ELSE <<>>)
                \o [j \in DOMAIN stps[i].statements |->
                      normalizeSql(stps[i].statements[j])]
                \o (IF pretty THEN <<Blank>> ELSE <<>>)])
      tail == IF deferForeignKeys THEN <<PragmaDefer(FALSE)>> ELSE <<>>
  IN head \o body \o tail

statements(stps) == generate(stps, FALSE)
sqlLines(stps) == generate(stps, TRUE)

-----------------------------------------------------------------------------
(* The SQLite engine behind db.batch: one transaction, foreign keys        *)
(* enforced (the Workers D1 default), statements run in order, everything  *)
(* rolled back when a statement or the commit fails.                       *)

Ids(rs) == {r["id"] : r \in rs}

FkParents(st, u) == Range(TableSql(st, u).fks)

\* the tables whose rows an ON DELETE CASCADE reaches from a delete in `from`
RECURSIVE CascadeReach(_, _, _)
CascadeReach(st, from, acc) ==
  LET more == {u \in TableNames(st) \ from :
                 TableSql(st, u).cascade /\ FkParents(st, u) \cap (from \cup acc) # {}}
  IN IF more \subseteq acc THEN acc ELSE CascadeReach(st, from, acc \cup more)

Fail(st) == [st EXCEPT !.ok = FALSE]

DefaultValue(col) == IF col.dflt = NoDefault THEN "NULL" ELSE col.dflt

ReplaceIn(sq, a, b) == [i \in DOMAIN sq |-> IF sq[i] = a THEN b ELSE sq[i]]

ExecCreate(st, s) ==
  IF HasName(st, s.name) THEN Fail(st)
  ELSE IF s.type = "table"
    THEN [st EXCEPT !.master = Append(@, MasterRow(s)),
                    !.rows = (s.name :> {}) @@ @]
  ELSE IF s.type \in {"index", "trigger"} /\ ~HasTable(st, s.on) THEN Fail(st)
  ELSE [st EXCEPT !.master = Append(@, MasterRow(s))]

\* DROP TABLE runs an implicit DELETE FROM first: foreign key actions fire
ExecDropTable(st, s) ==
  IF ~HasTable(st, s.name) THEN Fail(st)
  ELSE
    LET t     == s.name
        ids   == Ids(st.rows[t])
        casc  == CascadeReach(st, {t}, {})
        noact == {u \in TableNames(st) \ ({t} \cup casc) :
                    ~TableSql(st, u).cascade /\ FkParents(st, u) \cap ({t} \cup casc) # {}}
        fresh == {<<u, id>> : u \in noact, id \in ids} \cap
                 UNION {{<<u, id>> : id \in Ids(st.rows[u])} : u \in noact}
        gone  == {<<u, id>> : u \in casc \cup {t}, id \in ids} \cup
                 {v \in st.vio : v[1] = t}
    IN IF fresh # {} /\ ~st.defer THEN Fail(st)
       ELSE [st EXCEPT
               !.master = SelectSeq(@, LAMBDA r :
                  ~(r.name = t \/ (r.type \in {"index", "trigger"} /\ r.sql.on = t))),
               !.rows = [u \in DOMAIN @ \ {t} |->
                           IF u \in casc THEN {r \in @[u] : r["id"] \notin ids} ELSE @[u]],
               !.vio = (@ \cup fresh) \ gone]

ExecDropObject(st, s) ==
  IF ~\E i \in DOMAIN st.master : st.master[i].type = s.type /\ st.master[i].name = s.name
  THEN Fail(st)
  ELSE [st EXCEPT !.master = SelectSeq(@, LAMBDA r : ~(r.type = s.type /\ r.name = s.name))]

\* ALTER TABLE .. RENAME TO also rewrites every reference to the table: the
\* REFERENCES clauses of all tables, and the triggers, indexes and views on it
ExecRename(st, s) ==
  IF ~HasTable(st, s.name) \/ HasName(st, s.to) THEN Fail(st)
  ELSE
    LET fix(r) ==
          IF r.type = "table"
          THEN LET q == [r.sql EXCEPT !.fks = ReplaceIn(@, s.name, s.to),
                                      !.name = IF @ = s.name THEN s.to ELSE @]
               IN [type |-> "table", name |-> q.name, sql |-> q]
          ELSE [r EXCEPT !.sql.on = IF @ = s.name THEN s.to ELSE @]
    IN [st EXCEPT
          !.master = [i \in DOMAIN @ |-> fix(@[i])],
          !.rows = [u \in (DOMAIN @ \ {s.name}) \cup {s.to} |->
                      IF u = s.to THEN @[s.name] ELSE @[u]],
          !.vio = {IF v[1] = s.name THEN <<s.to, v[2]>> ELSE v : v \in @}]

ExecAddColumn(st, s) ==
  IF \/ ~HasTable(st, s.name)
     \/ s.col.name \in Range(ColNames(columns(st, s.name)))
     \/ (s.col.notnull /\ s.col.dflt = NoDefault)
  THEN Fail(st)
  ELSE [st EXCEPT
          !.master = [i \in DOMAIN @ |->
             IF @[i].type = "table" /\ @[i].name = s.name
             THEN [@[i] EXCEPT !.sql.cols = Append(@, s.col)] ELSE @[i]],
          !.rows[s.name] = {(s.col.name :> DefaultValue(s.col)) @@ r : r \in @}]

ExecInsertSelect(st, s) ==
  IF \/ ~HasTable(st, s.name) \/ ~HasTable(st, s.from)
     \/ ~(Range(s.cols) \subseteq Range(ColNames(columns(st, s.name))))
     \/ ~(Range(s.cols) \subseteq Range(ColNames(columns(st, s.from))))
  THEN Fail(st)
  ELSE
    LET cols    == columns(st, s.name)
        made(r) == [c \in Range(ColNames(cols)) |->
                      IF c \in Range(s.cols) THEN r[c]
                      ELSE DefaultValue(cols[CHOOSE i \in DOMAIN cols : cols[i].name = c])]
        new     == {made(r) : r \in st.rows[s.from]}
        nullBad == \E r \in new : \E i \in DOMAIN cols : cols[i].notnull /\ r[cols[i].name] = "NULL"
        parents == FkParents(st, s.name)
        noTable == new # {} /\ \E q \in parents : ~HasTable(st, q)
        orphans == {<<s.name, r["id"]>> : r \in {x \in new :
                       \E q \in parents : HasTable(st, q) /\ x["id"] \notin Ids(st.rows[q])}}
        healed  == {v \in st.vio : s.name \in FkParents(st, v[1]) /\ v[2] \in Ids(new)}
    IN IF nullBad \/ noTable \/ (orphans # {} /\ ~st.defer) THEN Fail(st)
       ELSE [st EXCEPT !.rows[s.name] = @ \cup new,
                       !.vio = (@ \ healed) \cup orphans]

\* INSERT INTO <table> (name, version, hash) VALUES (..): name is UNIQUE
ExecInsertMigration(st, s) ==
  IF ~HasTable(st, s.name) \/ \E r \in st.rows[s.name] : r.name = s.row.name THEN Fail(st)
  ELSE [st EXCEPT !.rows[s.name] =
          @ \cup {[id |-> ToString(Cardinality(@) + 1), name |-> s.row.name,
                    version |-> s.row.version, hash |-> s.row.hash]}]

ExecStmt(st, s) ==
  IF ~st.ok THEN st
  ELSE CASE s.op = "CREATE" -> ExecCreate(st, s)
         [] s.op = "CREATE IF NOT EXISTS" ->
              IF HasName(st, s.sql.name) THEN st ELSE ExecCreate(st, s.sql)
         [] s.op = "INSERT MIGRATION" -> ExecInsertMigration(st, s)
         [] s.op = "DROP TABLE" -> ExecDropTable(st, s)
         [] s.op = "DROP" -> ExecDropObject(st, s)
         [] s.op = "RENAME" -> ExecRename(st, s)
         [] s.op = "ADD COLUMN" -> ExecAddColumn(st, s)
         [] s.op = "INSERT SELECT" -> ExecInsertSelect(st, s)
         [] s.op = "PRAGMA defer_foreign_keys" -> [st EXCEPT !.defer = s.on]
         [] OTHER -> st

RECURSIVE ExecAll(_, _)
ExecAll(st, stmts) ==
  IF stmts = <<>> THEN st ELSE ExecAll(ExecStmt(st, Head(stmts)), Tail(stmts))

\* db.batch(statements): [ok, db]
Batch(db, stmts) ==
  LET st == ExecAll([master |-> db.master, rows |-> db.rows, defer |-> FALSE,
                     vio |-> {}, ok |-> TRUE], stmts)
      ok == st.ok /\ st.vio = {}
  IN [ok |-> ok, db |-> IF ok THEN [master |-> st.master, rows |-> st.rows] ELSE db]

-----------------------------------------------------------------------------
(* The schemas and databases the planner is run on.                        *)

MaxRows == 1

IdCol == Col("id", "INTEGER", FALSE, NoDefault)

G0 == CreateTable("g", <<IdCol>>, <<>>, FALSE, "plain")
G1 == CreateTable("g", <<IdCol, Col("x", "TEXT", FALSE, NoDefault)>>, <<>>, FALSE, "plain")
GTables ==
  { G0, G1,
    CreateTable("g", <<IdCol>>, <<>>, FALSE, "spaced"),
    CreateTable("g", <<IdCol, Col("x", "INTEGER", FALSE, NoDefault)>>, <<>>, FALSE, "plain"),
    CreateTable("g", <<IdCol, Col("x", "TEXT", TRUE, NoDefault)>>, <<>>, FALSE, "plain") }

G2 == CreateTable("g", <<IdCol, Col("x", "TEXT", TRUE, NoDefault)>>, <<>>, FALSE, "plain")

P0 == CreateTable("p", <<IdCol>>, <<>>, FALSE, "plain")
P1 == CreateTable("p", <<IdCol>>, <<"g">>, TRUE, "plain")
PTables ==
  { P0, P1,
    CreateTable("p", <<IdCol>>, <<"g">>, FALSE, "plain"),
    CreateTable("p", <<IdCol, Col("y", "TEXT", FALSE, "'v'")>>, <<"g">>, TRUE, "plain") }

CTables ==
  { CreateTable("c", <<IdCol>>, <<"p">>, TRUE, "plain") }

ObjectSets ==
  { <<CreateObject("index", "ix", "p", "id", "plain")>>,
    <<CreateObject("index", "ix", "p", "id", "spaced")>>,
    <<CreateObject("index", "ix", "p", "id desc", "plain")>>,
    <<CreateObject("view", "vw", "p", "id", "plain")>>,
    <<CreateObject("trigger", "tr", "p", "select 1", "plain")>>,
    <<CreateObject("trigger", "tr", "p", "select 2", "plain")>>,
    <<CreateObject("trigger", "log_deletion", "p", "select 1", "plain")>>,
    <<CreateObject("view", "vw", "p", "count(id)", "plain")>>,
    <<CreateObject("index", "ix", "p", "id", "plain"),
      CreateObject("trigger", "tr", "p", "select 1", "plain"),
      CreateObject("view", "vw", "p", "id", "plain")>> }

Opt(S) == {<<>>} \cup {<<x>> : x \in S}

\* every REFERENCES names a table of the schema, every object is on a table of it
ValidSchema(sc) ==
  \A i \in DOMAIN sc :
    IF sc[i].type = "table"
    THEN \A f \in Range(sc[i].fks) : \E j \in DOMAIN sc : sc[j].name = f
    ELSE \E j \in DOMAIN sc : sc[j].type = "table" /\ sc[j].name = sc[i].on

TableSchemas ==
  {sc \in {g \o p \o c : g \in Opt(GTables), p \in Opt(PTables), c \in Opt(CTables)} :
     ValidSchema(sc)}

ObjectSchemas ==
  {sc \in {g \o p \o o : g \in {<<G0>>, <<G1>>, <<G2>>}, p \in {<<P0>>, <<P1>>},
                            o \in ObjectSets} :
     ValidSchema(sc)}

\* a referencing table created before the table it references
ReorderedSchemas ==
  { <<P1, G0>>, <<CreateTable("p", <<IdCol>>, <<"g">>, FALSE, "plain"), G0>> }

\* a schema holding both a table and a table named after it with _old
OldSchemas ==
  {g \o o : g \in {<<G0>>, <<G2>>},
            o \in {<<CreateTable("g_old", <<IdCol>>, <<>>, FALSE, "plain")>>,
                   <<CreateTable("g_old", <<IdCol, Col("x", "TEXT", FALSE, NoDefault)>>,
                                 <<>>, FALSE, "plain")>>}}

Schemas == TableSchemas \cup ObjectSchemas \cup ReorderedSchemas \cup OldSchemas

\* a database file holding schema sc with n rows in every table; the rows of
\* a referencing table carry the ids of the rows they reference
SeedRow(sql, i) ==
  [c \in Range(ColNames(sql.cols)) |-> IF c = "id" THEN ToString(i) ELSE "v"]

Load(stmts) ==
  ExecAll([master |-> <<>>, rows |-> <<>>, defer |-> TRUE, vio |-> {}, ok |-> TRUE], stmts)

Database(sc, n) ==
  LET st == Load(sc)
  IN [master |-> st.master,
      rows |-> [t \in DOMAIN st.rows |-> {SeedRow(TableSql(st, t), i) : i \in 1..n}]]

-----------------------------------------------------------------------------
(* The schema command: introspect the live database, plan against the      *)
(* schema files, write the migration file and apply it in one batch.       *)

MIGRATION_TABLE == "_calljmp_migrations"

\* the hex SHA-256 digest of a text: a string, one per text
Hash(content) == "sha256:" \o ToString(content)

CreateMigrationTable(table) ==
  [op |-> "CREATE IF NOT EXISTS",
   sql |-> CreateTable(table,
             <<IdCol, Col("name", "TEXT", TRUE, NoDefault),
               Col("version", "INTEGER", TRUE, NoDefault),
               Col("hash", "TEXT", TRUE, NoDefault)>>, <<>>, FALSE, "spaced")]

InsertMigration(table, name, version, hash) ==
  [op |-> "INSERT MIGRATION", name |-> table,
   row |-> [name |-> name, version |-> version, hash |-> hash]]

\* SELECT sql FROM sqlite_master WHERE name NOT LIKE "sqlite_%" AND name NOT LIKE "_cf_%"
pollTargetSchema(db) ==
  LET hit == SelectSeq(db.master, LAMBDA r : r.name \notin SqliteInternal)
  IN [i \in DOMAIN hit |-> hit[i].sql]

\* no migration directory, runSqlMigrations not running
RunnerIdle ==
  /\ dir = <<>>
  /\ rdb = [exists |-> FALSE, rows |-> <<>>, objects |-> {}]
  /\ rpc = "idle"
  /\ migrations = <<>>
  /\ appliedMigrations = <<>>
  /\ idx = 0
  /\ logged = <<>>
  /\ handed = <<>>
  /\ execCount = <<>>
  /\ runs = 0
  /\ edited = {}

\* the database after an earlier migration of the schema command was applied
\* to it: the bookkeeping table exists and holds that migration's row
Migrated(db) ==
  Batch(db, <<CreateMigrationTable(MIGRATION_TABLE),
              InsertMigration(MIGRATION_TABLE, <<"i", "n", "i", "t">>, 1, Hash(<<>>))>>).db

MigratedSchemas == { <<G0>>, <<G0, P1>> }

PInit ==
  /\ live \in {Database(sc, n) : sc \in Schemas, n \in 0..MaxRows}
              \cup {Migrated(Database(sc, n)) : sc \in MigratedSchemas, n \in 0..MaxRows}
  /\ before = live
  /\ target = EmptyDb
  /\ pristine = EmptyDb
  /\ steps = <<>>
  /\ recreatedTables = <<>>
  /\ batchOk = TRUE
  /\ ppc = "new"
  /\ RunnerIdle
  /\ NormalizerIdle
  /\ SplitterIdle
  /\ RemoteIdle

\* migration.exec(targetSchemaStatements.join(';'))
ExecCurrent ==
  /\ ppc = "new"
  /\ LET st == Load(pollTargetSchema(live))
     IN /\ target' = [master |-> st.master, rows |-> st.rows]
        /\ ppc' = IF st.ok THEN "loaded" ELSE "error"
  /\ UNCHANGED <<live, before, pristine, steps, recreatedTables, batchOk>>
  /\ UNCHANGED <<rvars, nvars, svars, mvars>>

\* migration.prepare(schemaStatements.join(';')), the statements of the
\* schema files having gone through normalizeSql
Prepare(schema) ==
  /\ ppc = "loaded"
  /\ LET st == Load([i \in DOMAIN schema |-> normalizeSql(schema[i])])
         pr == [master |-> st.master, rows |-> st.rows]
     IN /\ pristine' = pr
        /\ steps' = prepareSteps(pr, target)
        /\ recreatedTables' = migrateTables(pr, target).recreated
  /\ ppc' = "prepared"
  /\ UNCHANGED <<live, before, target, batchOk>>
  /\ UNCHANGED <<rvars, nvars, svars, mvars>>

\* the name the prompt proposes, and a name the user types instead
NewMigration == <<"n", "e", "w", "-", "m", "i", "g", "r", "a", "t", "i", "o", "n">>

MigrationNames == { NewMigration, <<"a", "d", "d", " ", "x">> }

\* db.batch([CREATE TABLE IF NOT EXISTS .., ...migration.statements(), INSERT ..])
Apply(name) ==
  /\ ppc = "prepared"
  /\ Len(steps) > 0
  /\ LET r == Batch(live, <<CreateMigrationTable(MIGRATION_TABLE)>>
                          \o statements(steps)
                          \o <<InsertMigration(MIGRATION_TABLE, name, 1, Hash(sqlLines(steps)))>>)
     IN /\ live' = r.db
        /\ batchOk' = r.ok
        /\ ppc' = IF r.ok THEN "applied" ELSE "failed"
  /\ UNCHANGED <<before, target, pristine, steps, recreatedTables>>
  /\ UNCHANGED <<rvars, nvars, svars, mvars>>

\* the user answers no to one of the confirmation prompts
Decline ==
  /\ ppc = "prepared"
  /\ Len(steps) > 0
  /\ ppc' = "declined"
  /\ UNCHANGED <<live, before, target, pristine, steps, recreatedTables, batchOk>>
  /\ UNCHANGED <<rvars, nvars, svars, mvars>>

PNext ==
  \/ ExecCurrent
  \/ \E schema \in Schemas : Prepare(schema)
  \/ \E name \in MigrationNames : Apply(name)
  \/ Decline

PlanSpec == PInit /\ [][PNext]_vars

-----------------------------------------------------------------------------
(* Properties of the planner.                                               *)

\* names the spec reserves: sqlite_%, _cf_%, %_calljmp_%
ReservedNames == SqliteInternal \cup {MIGRATION_TABLE}

Visible(db, type) ==
  {db.master[i] : i \in {j \in DOMAIN db.master :
      db.master[j].type = type /\ db.master[j].name \notin ReservedNames}}

TableShape(sql) == [cols |-> Range(sql.cols), fks |-> Range(sql.fks), cascade |-> sql.cascade]

\* db has the schema of pr: the same tables with the same columns (type,
\* default, NOT NULL) and foreign keys, the same other objects by normalized SQL
SchemaMatches(db, pr) ==
  /\ {[name |-> r.name, shape |-> TableShape(r.sql)] : r \in Visible(db, "table")}
       = {[name |-> r.name, shape |-> TableShape(r.sql)] : r \in Visible(pr, "table")}
  /\ \A type \in {"index", "trigger", "view"} :
       {normalizeSql(r.sql) : r \in Visible(db, type)}
         = {normalizeSql(r.sql) : r \in Visible(pr, type)}

\* C1: once the rendered plan has been executed the live database has the
\* schema of the target
C1_Convergence == ppc = "applied" => SchemaMatches(live, pristine)

\* C2: equal schemas (object by object, by normalized SQL) give no step and
\* no rendered line, PRAGMA lines included
SameByNormalizedSql(a, b) ==
  \A type \in {"table", "index", "trigger", "view"} :
    {[name |-> r.name, sql |-> normalizeSql(r.sql)] : r \in Range(objects(a, type))}
      = {[name |-> r.name, sql |-> normalizeSql(r.sql)] : r \in Range(objects(b, type))}

C2_NoOpOnEqualSchemas ==
  (ppc = "prepared" /\ SameByNormalizedSql(target, pristine))
    => /\ steps = <<>>
       /\ statements(steps) = <<>>
       /\ sqlLines(steps) = <<>>

\* the schemas are equal up to style only, and hold a table and an index
C2_Witness ==
  /\ ppc = "prepared"
  /\ SameByNormalizedSql(target, pristine)
  /\ target # pristine
  /\ \E r \in Range(target.master) : r.type = "index"

\* C3: the rows of a table whose columns the target only extends (by
\* nullable or defaulted columns) are all still there after the plan
OnlyExtended(t) ==
  /\ HasTable(before, t) /\ HasTable(pristine, t)
  /\ LET old == columns(before, t)
         new == columns(pristine, t)
     IN /\ Range(ColNames(old)) \subseteq Range(ColNames(new))
        /\ \A i \in DOMAIN new :
             new[i].name \notin Range(ColNames(old)) =>
               (~new[i].notnull \/ new[i].dflt # NoDefault)

RowsKept(t) ==
  /\ HasTable(live, t)
  /\ \A r \in before.rows[t] : \E q \in live.rows[t] : \A c \in DOMAIN r : q[c] = r[c]

C3_RowPreservation ==
  ppc \in {"applied", "failed"} =>
    \A t \in TableNames(before) \ ReservedNames : OnlyExtended(t) => RowsKept(t)

\* C8: PRAGMA defer_foreign_keys = ON first and = OFF last, in both rendered
\* forms, exactly when a step is flagged, which is exactly when a table is
\* recreated; otherwise no PRAGMA at all
Flagged == \E i \in DOMAIN steps : steps[i].deferForeignKeys

Wrapped(lines) ==
  /\ Len(lines) >= 2
  /\ lines[1] = PragmaDefer(TRUE)
  /\ lines[Len(lines)] = PragmaDefer(FALSE)

NoPragma(lines) == \A i \in DOMAIN lines : lines[i].op # "PRAGMA defer_foreign_keys"

C8_DeferredFkWrapping ==
  ppc = "prepared" =>
    /\ Flagged <=> recreatedTables # <<>>
    /\ \A pretty \in BOOLEAN :
         IF Flagged THEN Wrapped(generate(steps, pretty))
         ELSE NoPragma(generate(steps, pretty))

C8_Witness == ppc = "prepared" /\ Flagged /\ Len(recreatedTables) >= 2

\* C9: rename, create, copy (iff a column is shared), drop of <t>_old, in
\* this order for each recreated table, and phase by phase over all of them
PlanStatements == Flatten([i \in DOMAIN steps |-> steps[i].statements])

PosIn(plan, s) == {i \in DOMAIN plan : plan[i] = s}
PosOf(s) == PosIn(PlanStatements, s)

RenameOf(t) == RenameTable(t, t \o "_old")
CreateOf(t) == TableSql(pristine, t)
CopyOf(t) == InsertSelect(t, ColNames(commonCols(pristine, target, t)), t \o "_old")
DropOldOf(t) == DropTable(t \o "_old")
SharesColumn(t) ==
  Range(ColNames(columns(target, t))) \cap Range(ColNames(columns(pristine, t))) # {}

\* the position in plan of the recreate sequence's statement s (0 when it is
\* absent): the last one, a table that is new in the target being created
\* once before phase R as well
LastIn(plan, s) ==
  LET at == PosIn(plan, s)
  IN IF at = {} THEN 0 ELSE CHOOSE i \in at : \A j \in at : j <= i

C9_RecreateSequence ==
  ppc = "prepared" =>
    LET R    == Range(recreatedTables)
        plan == PlanStatements
        ren  == [t \in R |-> LastIn(plan, RenameOf(t))]
        cre  == [t \in R |-> LastIn(plan, CreateOf(t))]
        cpy  == [t \in R |-> LastIn(plan, CopyOf(t))]
        drp  == [t \in R |-> LastIn(plan, DropOldOf(t))]
    IN /\ \A t \in R :
            /\ ren[t] > 0 /\ cre[t] > 0 /\ drp[t] > 0
            /\ cpy[t] > 0 <=> SharesColumn(t)
            /\ ren[t] < cre[t] /\ cre[t] < drp[t]
            /\ cpy[t] > 0 => (cre[t] < cpy[t] /\ cpy[t] < drp[t])
       /\ \A t, u \in R :
            /\ ren[t] < cre[u]
            /\ cre[t] < drp[u]
            /\ cpy[u] > 0 => cre[t] < cpy[u]
            /\ cpy[t] > 0 => cpy[t] < drp[u]

C9_Witness ==
  /\ ppc = "prepared"
  /\ \E t, u \in Range(recreatedTables) : t # u /\ SharesColumn(t) /\ ~SharesColumn(u)

\* C10: the recreated set is the structurally modified tables closed under
\* "references, by a foreign key of the target schema"
StructurallyModified ==
  {t \in Range(modifiedTables(pristine, target)) : ~isAddOnlyColumns(pristine, target, t).addOnly}

RECURSIVE Referencers(_)
Referencers(S) ==
  LET more == {u \in TableNames(pristine) : Range(foreignKeys(pristine, u)) \cap S # {}}
  IN IF more \subseteq S THEN S ELSE Referencers(S \cup more)

RenamedInPlan == {t \in TableNames(pristine) \cup TableNames(target) : PosOf(RenameOf(t)) # {}}

C10_RecreationClosure ==
  ppc = "prepared" =>
    /\ Range(recreatedTables) = Referencers(StructurallyModified)
    /\ RenamedInPlan = Referencers(StructurallyModified)

\* a table recreated only because it references a table that references a
\* structurally modified one
C10_Witness ==
  /\ ppc = "prepared"
  /\ \E t \in Range(recreatedTables) :
       /\ t \notin StructurallyModified
       /\ Range(foreignKeys(pristine, t)) \cap StructurallyModified = {}

\* C11: of two added tables, or of two recreated tables, the one that the
\* other references (in the target schema, whose foreign keys form no cycle)
\* is created first and copied into first, and its _old table is dropped last.
\* The CREATE of an added table is the one of phase A (its first), the CREATE
\* of a recreated table the one of the recreate sequence (its last).
FirstIn(plan, s) ==
  LET at == PosIn(plan, s)
  IN IF at = {} THEN 0 ELSE CHOOSE i \in at : \A j \in at : i <= j

References(db, c, p) == c # p /\ p \in Range(foreignKeys(db, c))

C11_CreateOrder ==
  ppc = "prepared" =>
    LET plan == PlanStatements
        A == Range(addedTables(pristine, target))
        R == Range(recreatedTables)
    IN \A P, C \in TableNames(pristine) :
         References(pristine, C, P) =>
           /\ (P \in A /\ C \in A) =>
                /\ FirstIn(plan, CreateOf(P)) > 0
                /\ FirstIn(plan, CreateOf(P)) < FirstIn(plan, CreateOf(C))
           /\ (P \in R /\ C \in R) =>
                /\ LastIn(plan, CreateOf(P)) > 0
                /\ LastIn(plan, CreateOf(P)) < LastIn(plan, CreateOf(C))
                /\ (SharesColumn(P) /\ SharesColumn(C)) =>
                     /\ LastIn(plan, CopyOf(P)) > 0
                     /\ LastIn(plan, CopyOf(P)) < LastIn(plan, CopyOf(C))
                /\ LastIn(plan, DropOldOf(C)) > 0
                /\ LastIn(plan, DropOldOf(C)) < LastIn(plan, DropOldOf(P))

\* a chain of three recreated tables that all have rows to copy
C11_Witness ==
  /\ ppc = "prepared"
  /\ \E P, C, D \in Range(recreatedTables) :
       /\ References(pristine, C, P) /\ References(pristine, D, C)
       /\ SharesColumn(P) /\ SharesColumn(C) /\ SharesColumn(D)

\* two added tables, one referencing the other
C11_AddedPair ==
  /\ ppc = "prepared"
  /\ \E P, C \in Range(addedTables(pristine, target)) : References(pristine, C, P)

\* C12: of two dropped tables the one that references the other (in the
\* current schema) is dropped first
C12_DropOrder ==
  ppc = "prepared" =>
    LET plan == PlanStatements
        D == Range(removedTables(pristine, target))
    IN \A P, C \in D :
         References(target, C, P) =>
           /\ FirstIn(plan, DropTable(C)) > 0
           /\ FirstIn(plan, DropTable(C)) < FirstIn(plan, DropTable(P))

\* C13: an index or trigger of both schemas on a recreated table is created
\* again and never dropped by name; on a table that is not recreated, with
\* different SQL, it is dropped and then created
InBoth(type) ==
  {k \in Range(Keys(objects(pristine, type))) : Has(objects(target, type), k)}

Definition(type, k) == Get(objects(pristine, type), k)

Differs(type, k) ==
  normalizeSql(Get(objects(target, type), k)) # normalizeSql(Definition(type, k))

\* DROP <TYPE> k directly followed by the target's CREATE text of k
DropThenCreate(plan, type, k) ==
  \E i \in DOMAIN plan :
    /\ i < Len(plan)
    /\ plan[i] = DropObject(type, k)
    /\ plan[i + 1] = Definition(type, k)

C13_ObjectsOfRecreatedTable ==
  ppc = "prepared" =>
    LET plan == PlanStatements
        R == Range(recreatedTables)
    IN \A type \in {"index", "trigger"} : \A k \in InBoth(type) :
         IF Definition(type, k).on \in R
         THEN /\ PosIn(plan, Definition(type, k)) # {}
              /\ PosIn(plan, DropObject(type, k)) = {}
         ELSE Differs(type, k) => DropThenCreate(plan, type, k)

\* C14: a view of both schemas that differs, or whose first FROM table is
\* recreated, is dropped and then created, the two statements adjacent
C14_ViewsDroppedThenCreated ==
  ppc = "prepared" =>
    \A k \in InBoth("view") :
      (Differs("view", k) \/ Definition("view", k).on \in Range(recreatedTables))
        => DropThenCreate(PlanStatements, "view", k)

\* C15: when the target leaves out a table together with the objects on it,
\* or an index or trigger of a recreated table, no DROP INDEX / DROP TRIGGER
\* comes after the DROP TABLE that destroyed the object, the batch succeeds
\* and the objects are gone afterwards
RemovedObjects ==
  {r \in Range(before.master) :
     /\ r.type \in {"index", "trigger", "view"}
     /\ ~Has(objects(pristine, r.type), r.name)
     /\ \/ ~HasTable(pristine, r.sql.on)
        \/ r.type # "view" /\ r.sql.on \in Range(recreatedTables)}

NoDropOfDestroyed ==
  LET plan == PlanStatements
  IN \A r \in RemovedObjects : \A i \in PosIn(plan, DropObject(r.type, r.name)) :
       r.type = "view" \/
         \A j \in 1..(i - 1) :
           plan[j] \notin {DropTable(r.sql.on), DropTable(r.sql.on \o "_old")}

C15_RemovalAppliesCleanly ==
  (ppc \in {"applied", "failed"} /\ RemovedObjects # {}) =>
    /\ NoDropOfDestroyed
    /\ ppc = "applied"
    /\ \A r \in RemovedObjects : ~HasName(live, r.name)

\* C16: a modified table with the same column names in both schemas and a
\* different definition is recreated, gets no step without statements, and
\* has the target's definition once the plan is applied
SameNamesOtherShape ==
  {t \in Range(modifiedTables(pristine, target)) :
     /\ Range(ColNames(columns(target, t))) = Range(ColNames(columns(pristine, t)))
     /\ TableShape(TableSql(target, t)) # TableShape(TableSql(pristine, t))}

C16_NonAddOnlyIsStructural ==
  ppc \in {"prepared", "applied"} =>
    \A t \in SameNamesOtherShape :
      /\ t \in Range(recreatedTables)
      /\ \A i \in DOMAIN steps : steps[i].name = t => steps[i].statements # <<>>
      /\ ppc = "applied" =>
           HasTable(live, t) /\ TableShape(TableSql(live, t)) = TableShape(TableSql(pristine, t))

\* C17: no table name has both an ALTER TABLE .. ADD COLUMN and a DROP TABLE
\* in the rendered plan
C17_NoAlterAndDropOfSameTable ==
  ppc = "prepared" =>
    LET lines == statements(steps)
    IN \A i, j \in DOMAIN lines :
         ~(lines[i].op = "ADD COLUMN" /\ lines[j] = DropTable(lines[i].name))

\* C18: reserved names are not introspected, in current or in target, and no
\* statement of the rendered plan names one
NamedBy(s) ==
  IF s.op \in {"CREATE", "DROP TABLE", "DROP", "ADD COLUMN", "INSERT SELECT"} THEN {s.name}
  ELSE IF s.op = "RENAME" THEN {s.name, s.to}
  ELSE {}

C18_ReservedInvisible ==
  ppc = "prepared" =>
    /\ \A db \in {target, pristine} : \A type \in {"table", "index", "trigger", "view"} :
         Range(Keys(objects(db, type))) \cap ReservedNames = {}
    /\ \A s \in Range(statements(steps)) : NamedBy(s) \cap ReservedNames = {}

\* C19: every CREATE statement handed to the database is a statement of the
\* schema files as written there, never the output of normalizeSql
C19_NormalizedNeverExecuted ==
  [][\A schema \in Schemas :
       Prepare(schema) =>
         \A s \in Range(statements(steps')) : s.op = "CREATE" => s \in Range(schema)]_vars

\* the schema files add a NOT NULL column without default to a table that
\* exists and has rows
Infeasible ==
  \E t \in TableNames(target) \cap TableNames(pristine) :
    /\ t \in DOMAIN before.rows /\ before.rows[t] # {}
    /\ \E i \in DOMAIN columns(pristine, t) :
         LET col == columns(pristine, t)[i]
         IN /\ col.name \notin Range(ColNames(columns(target, t)))
            /\ col.notnull /\ col.dflt = NoDefault

\* C26: a NOT NULL column without default added to a table that exists and
\* has rows makes the planner raise: there is no plan, nothing is executed
\* and the database stays as it was
C26_InfeasibleRejected ==
  (ppc \in {"prepared", "applied", "failed", "declined"} /\ Infeasible) =>
    /\ steps = <<>>
    /\ live = before

\* the lexicographic order of the table names of the universe
LexRank(n) ==
  CASE n = "_calljmp_migrations" -> 0
    [] n = "c" -> 1
    [] n = "g" -> 2
    [] n = "g_old" -> 3
    [] n = "p" -> 4

RECURSIVE ReferencersIn(_, _)
ReferencersIn(db, S) ==
  LET more == {u \in TableNames(db) : Range(foreignKeys(db, u)) \cap S # {}}
  IN IF more \subseteq S THEN S ELSE ReferencersIn(db, S \cup more)

Unordered(db, a, b) ==
  a # b /\ a \notin ReferencersIn(db, {b}) /\ b \notin ReferencersIn(db, {a})

Occurrences(sq, x) == Cardinality({i \in DOMAIN sq : sq[i] = x})

\* C27: two tables of a phase that no chain of foreign keys connects are
\* emitted in the lexicographic order of their names, and the sort lists
\* every table it is given exactly once
C27_LexicographicTieBreak ==
  ppc = "prepared" =>
    LET plan == PlanStatements
        A == Range(addedTables(pristine, target))
        D == Range(removedTables(pristine, target))
        R == Range(recreatedTables)
        input == Dedup(modifiedTables(pristine, target) \o removedTables(pristine, target)
                       \o addedTables(pristine, target))
    IN /\ \A t \in Range(input) : Occurrences(sortedTables(pristine, target), t) = 1
       /\ \A a, b \in A : (Unordered(pristine, a, b) /\ LexRank(a) < LexRank(b)) =>
            FirstIn(plan, CreateOf(a)) < FirstIn(plan, CreateOf(b))
       /\ \A a, b \in D : (Unordered(target, a, b) /\ LexRank(a) < LexRank(b)) =>
            FirstIn(plan, DropTable(a)) < FirstIn(plan, DropTable(b))
       /\ \A a, b \in R : (Unordered(pristine, a, b) /\ LexRank(a) < LexRank(b)) =>
            LastIn(plan, RenameOf(a)) < LastIn(plan, RenameOf(b))

\* C30: a table that is recreated has no ALTER TABLE .. ADD COLUMN in the plan
C30_OnePathPerTable ==
  ppc = "prepared" =>
    \A s \in Range(PlanStatements) :
      s.op = "ADD COLUMN" => s.name \notin Range(recreatedTables)

-----------------------------------------------------------------------------
(* sql.ts: splitting a SQL text into statements.  A text is a sequence of  *)
(* characters; a run of ordinary characters of a generated statement is    *)
(* kept as one symbol, which the splitter only ever appends.               *)

IsSpace(c) == c \in {" ", "\n", "\t", "\r"}

\* the grave accent, which a string of this module cannot hold
Backtick == "<grave>"

Upper(c) ==
  CASE c = "b" -> "B" [] c = "e" -> "E" [] c = "g" -> "G" [] c = "i" -> "I"
    [] c = "n" -> "N" [] c = "c" -> "C" [] c = "a" -> "A" [] c = "s" -> "S"
    [] OTHER -> c

Letters ==
  {"A", "B", "C", "D", "E", "F", "G", "H", "I", "J", "K", "L", "M", "N", "O", "P", "Q", "R",
   "S", "T", "U", "V", "W", "X", "Y", "Z", "a", "b", "c", "d", "e", "f", "g", "h", "i", "j",
   "k", "l", "m", "n", "o", "p", "q", "r", "s", "t", "u", "v", "w", "x", "y", "z"}
Digits == {"0", "1", "2", "3", "4", "5", "6", "7", "8", "9"}

EndsWith(str, marker) ==
  /\ Len(str) >= Len(marker)
  /\ SubSeq(str, Len(str) - Len(marker) + 1, Len(str)) = marker

\* the least index at which pat starts in str, 0 when there is none
IndexOf(str, pat) ==
  LET hits == {i \in 1..(Len(str) - Len(pat) + 1) : SubSeq(str, i, i + Len(pat) - 1) = pat}
  IN IF hits = {} THEN 0 ELSE CHOOSE i \in hits : \A j \in hits : i <= j

\* String.prototype.replace(pat, ''): the first occurrence only
ReplaceFirst(str, pat) ==
  LET i == IndexOf(str, pat)
  IN IF i = 0 THEN str ELSE SubSeq(str, 1, i - 1) \o SubSeq(str, i + Len(pat), Len(str))

BEGIN_TRANSACTION ==
  <<"B", "E", "G", "I", "N", " ", "T", "R", "A", "N", "S", "A", "C", "T", "I", "O", "N">>
COMMIT_STMT == <<"C", "O", "M", "M", "I", "T", ";">>

mayContainTransaction(sql) == IndexOf(sql, BEGIN_TRANSACTION) # 0

\* [ok, sql]: ok is FALSE where the code throws
trimSqlQuery(sql) ==
  IF ~mayContainTransaction(sql) THEN [ok |-> TRUE, sql |-> sql]
  ELSE LET trimmedSql == ReplaceFirst(ReplaceFirst(sql, Append(BEGIN_TRANSACTION, ";")), COMMIT_STMT)
       IN [ok |-> ~mayContainTransaction(trimmedSql), sql |-> trimmedSql]

RECURSIVE trimEnd(_)
trimEnd(str) ==
  IF str # <<>> /\ IsSpace(str[Len(str)]) THEN trimEnd(SubSeq(str, 1, Len(str) - 1)) ELSE str

RECURSIVE trimStart(_)
trimStart(str) == IF str # <<>> /\ IsSpace(Head(str)) THEN trimStart(Tail(str)) ELSE str

trim(str) == trimStart(trimEnd(str))

mayContainMultipleStatements(sql) ==
  LET trimmed == trimEnd(sql)
      semiColonIndex == IndexOf(trimmed, <<";">>)
  IN semiColonIndex # 0 /\ semiColonIndex # Len(trimmed)

isDollarQuoteIdentifier(str) ==
  LET lastChar == str[Len(str)]
  IN lastChar # "$" /\ (lastChar \in Digits \/ lastChar = "_" \/ lastChar \in Letters)

\* /\s(BEGIN|CASE)\s$/i
isCompoundStatementStart(str) ==
  LET n == Len(str)
      up(a, b) == [k \in 1..(b - a + 1) |-> Upper(str[a + k - 1])]
  IN /\ n >= 1 /\ IsSpace(str[n])
     /\ \/ n >= 7 /\ IsSpace(str[n - 6]) /\ up(n - 5, n - 1) = <<"B", "E", "G", "I", "N">>
        \/ n >= 6 /\ IsSpace(str[n - 5]) /\ up(n - 4, n - 1) = <<"C", "A", "S", "E">>

\* /\sEND[;\s]$/
isCompoundStatementEnd(str) ==
  LET n == Len(str)
  IN /\ n >= 5
     /\ (str[n] = ";" \/ IsSpace(str[n]))
     /\ SubSeq(str, n - 3, n - 1) = <<"E", "N", "D">>
     /\ IsSpace(str[n - 4])

\* consumeWhile(iterator, predicate), the iterator standing before sql[from]:
\* the characters pulled, the one that ends the run included, and the
\* position the iterator is left at
consumeUntilMarker(sql, from, endMarker) ==
  LET ends == {j \in from..Len(sql) :
                 j - from + 1 >= Len(endMarker) /\ EndsWith(SubSeq(sql, from, j), endMarker)}
      last == IF ends = {} THEN Len(sql) ELSE CHOOSE j \in ends : \A k \in ends : j <= k
  IN [str |-> SubSeq(sql, from, last), at |-> last + 1]

consumeWhileDollarQuoteIdentifier(sql, from) ==
  LET stops == {j \in from..Len(sql) : ~isDollarQuoteIdentifier(SubSeq(sql, from, j))}
      last  == IF stops = {} THEN Len(sql) ELSE CHOOSE j \in stops : \A k \in stops : j <= k
  IN [str |-> SubSeq(sql, from, last), at |-> last + 1]

\* after the switch: a compound statement that starts here is pushed, and the
\* iterator moves on
splitAfterSwitch(st) ==
  IF isCompoundStatementStart(st.str) THEN [st EXCEPT !.stack = @ + 1] ELSE st

\* the loop of splitSqlIntoStatements with next = sql[i]; compoundStatementStack
\* only ever holds isCompoundStatementEnd, so its depth stands for it.  The
\* depth is never negative (shift() acts on a stack that is not empty); the
\* first test has TLC compute st0 turn by turn instead of all at the end.
RECURSIVE splitLoop(_, _, _)
splitLoop(sql, i, st0) ==
  IF st0.stack < 0 THEN <<>>
  ELSE IF i > Len(sql) THEN Append(st0.statements, st0.str)
  ELSE
    LET char == sql[i]
        st == IF st0.stack > 0 /\ isCompoundStatementEnd(Append(st0.str, char))
              THEN [st0 EXCEPT !.stack = @ - 1] ELSE st0
        more == i + 1 <= Len(sql)
    IN CASE char \in {"'", "\"", Backtick} ->
              LET c == consumeUntilMarker(sql, i + 1, <<char>>)
              IN splitLoop(sql, c.at,
                           splitAfterSwitch([st EXCEPT !.str = Append(@, char) \o c.str]))
         [] char = "$" ->
              LET id == consumeWhileDollarQuoteIdentifier(sql, i + 1)
                  dollarQuote == <<"$">> \o id.str
                  c == IF EndsWith(dollarQuote, <<"$">>)
                       THEN consumeUntilMarker(sql, id.at, dollarQuote)
                       ELSE [str |-> <<>>, at |-> id.at]
              IN splitLoop(sql, c.at,
                           splitAfterSwitch([st EXCEPT !.str = @ \o dollarQuote \o c.str]))
         [] char = "-" ->
              IF more /\ sql[i + 1] = "-"
              THEN LET c == consumeUntilMarker(sql, i + 2, <<"\n">>)
                   IN splitLoop(sql, c.at, splitAfterSwitch([st EXCEPT !.str = Append(@, "\n")]))
              ELSE splitLoop(sql, i + 1, [st EXCEPT !.str = Append(@, char)])
         [] char = "/" ->
              IF more /\ sql[i + 1] = "*"
              THEN LET c == consumeUntilMarker(sql, i + 2, <<"*", "/">>)
                   IN splitLoop(sql, c.at, splitAfterSwitch(st))
              ELSE splitLoop(sql, i + 1, [st EXCEPT !.str = Append(@, char)])
         [] char = ";" ->
              IF st.stack = 0
              THEN splitLoop(sql, i + 1,
                     splitAfterSwitch([st EXCEPT !.statements = Append(@, st.str), !.str = <<>>]))
              ELSE splitLoop(sql, i + 1, splitAfterSwitch([st EXCEPT !.str = Append(@, char)]))
         [] OTHER ->
              splitLoop(sql, i + 1, splitAfterSwitch([st EXCEPT !.str = Append(@, char)]))

splitSqlIntoStatements(sql) ==
  LET split == splitLoop(sql, 1, [statements |-> <<>>, str |-> <<>>, stack |-> 0])
      trimmed == [i \in DOMAIN split |-> trim(split[i])]
  IN SelectSeq(trimmed, LAMBDA statement : Len(statement) > 0)

\* [ok, queries]: ok is FALSE where trimSqlQuery throws
splitSqlQuery(sql) ==
  LET t == trimSqlQuery(sql)
      split == splitSqlIntoStatements(t.sql)
  IN IF ~t.ok THEN [ok |-> FALSE, queries |-> <<>>]
     ELSE IF ~mayContainMultipleStatements(t.sql) THEN [ok |-> TRUE, queries |-> <<t.sql>>]
     ELSE IF Len(split) = 0 THEN [ok |-> TRUE, queries |-> <<t.sql>>]
     ELSE [ok |-> TRUE, queries |-> split]

-----------------------------------------------------------------------------
(* The engine behind executeQueries, as far as migration files go: one     *)
(* batch is one transaction.  The statements it knows are the two the      *)
(* runner generates and three that stand for what a migration file holds.  *)

CreateMigrationTableSql(table) ==
  <<"CREATE TABLE IF NOT EXISTS ", table,
    " (id INTEGER PRIMARY KEY AUTOINCREMENT, name TEXT NOT NULL UNIQUE,",
    " version INTEGER NOT NULL, hash TEXT NOT NULL);">>

InsertMigrationSql(table, name, version, hash) ==
  <<"INSERT INTO ", table, " (name, version, hash) VALUES (", "'", name, "'", ", ",
    ToString(version), ", ", "'", hash, "'", ")">>

Versions == 1..3

\* a statement that can run any number of times (INSERT INTO t VALUES (1))
StmtA == <<"A">>
\* a statement that fails the second time (CREATE TABLE c (id))
StmtC == <<"C">>
\* CREATE TRIGGER t .. BEGIN A; END
StmtTrigger == <<"T", " ", "B", "E", "G", "I", "N", " ", "A", ";", " ", "E", "N", "D">>

IsInsertMigration(q) ==
  /\ Len(q) = 13
  /\ \E v \in Versions :
       q = InsertMigrationSql(MIGRATION_TABLE, q[5], v, q[11])

RowOf(q) ==
  [name |-> q[5], version |-> CHOOSE v \in Versions : ToString(v) = q[8], hash |-> q[11]]

\* [ok, db]
ExecQuery(db, q) ==
  IF q = CreateMigrationTableSql(MIGRATION_TABLE)
    THEN [ok |-> TRUE, db |-> [db EXCEPT !.exists = TRUE]]
  ELSE IF IsInsertMigration(q)
    THEN IF db.exists /\ ~\E k \in DOMAIN db.rows : db.rows[k].name = RowOf(q).name
         THEN [ok |-> TRUE, db |-> [db EXCEPT !.rows = Append(@, RowOf(q))]]
         ELSE [ok |-> FALSE, db |-> db]
  ELSE IF q = StmtA THEN [ok |-> TRUE, db |-> db]
  ELSE IF q = StmtC \/ q = StmtTrigger
    THEN IF q \in db.objects THEN [ok |-> FALSE, db |-> db]
         ELSE [ok |-> TRUE, db |-> [db EXCEPT !.objects = @ \cup {q}]]
  ELSE [ok |-> FALSE, db |-> db]

RECURSIVE ExecQueries(_, _)
ExecQueries(db, queries) ==
  IF queries = <<>> THEN [ok |-> TRUE, db |-> db]
  ELSE LET r == ExecQuery(db, Head(queries))
       IN IF r.ok THEN ExecQueries(r.db, Tail(queries)) ELSE r

\* db.batch(queries.map(query => db.prepare(query))): all or nothing; engineOk
\* is FALSE when the engine or the transport fails on its own
executeQueries(db, queries, engineOk) ==
  LET r == ExecQueries(db, queries)
  IN IF engineOk /\ r.ok THEN r ELSE [ok |-> FALSE, db |-> db]

-----------------------------------------------------------------------------
(* The migrations directory and collectMigrations.                          *)

MaxRuns == 2

File(version, name, content) ==
  [sql |-> TRUE, version |-> version, name |-> name, content |-> content]

\* a file whose name filePattern does not match
OtherFile == [sql |-> FALSE, version |-> 0, name |-> "notes.txt", content |-> <<"x">>]

Contents ==
  { <<"A", ";">>,
    <<"C">>,
    <<"A", ";", "-", "-", "x">>,
    <<"A", ";", "/", "*", "x">>,
    <<"A", ";", "'", "x">>,
    StmtTrigger \o <<";">>,
    <<"T", " ", "b", "e", "g", "i", "n", " ", "A", ";", " ", "e", "n", "d", ";">> }

\* file names, in readdir order
Listings ==
  { << <<1, "a">> >>,
    << <<1, "a">>, <<2, "b">> >>,
    << <<2, "b">>, <<1, "a">> >>,
    << <<1, "a">>, <<2, "a">> >> }

LongListing == << <<2, "c">>, <<1, "a">>, <<2, "b">> >>

Assign(l, cs) ==
  {[i \in DOMAIN l |-> File(l[i][1], l[i][2], c[i])] : c \in [DOMAIN l -> cs]}

Directories ==
  UNION {Assign(l, Contents) : l \in Listings}
  \cup Assign(LongListing, {<<"A", ";">>, <<"C">>})
  \cup {<<File(1, "a", c), OtherFile>> : c \in Contents}

\* files.sort((a, b) => a.version - b.version): stable
InsertByVersion(sorted, f) ==
  LET k == Cardinality({i \in DOMAIN sorted : sorted[i].version <= f.version})
  IN SubSeq(sorted, 1, k) \o <<f>> \o SubSeq(sorted, k + 1, Len(sorted))

RECURSIVE SortByVersion(_, _)
SortByVersion(files, sorted) ==
  IF files = <<>> THEN sorted
  ELSE SortByVersion(Tail(files), InsertByVersion(sorted, Head(files)))

collectMigrationsReaddirOrder(d) ==
  LET files == [i \in DOMAIN d |-> [file |-> i, version |-> d[i].version, name |-> d[i].name]]
  IN SelectSeq(files, LAMBDA f : d[f.file].sql)
collectMigrations(d) ==
  LET files == [i \in DOMAIN d |-> [file |-> i, version |-> d[i].version, name |-> d[i].name]]
  IN SortByVersion(SelectSeq(files, LAMBDA f : d[f.file].sql), <<>>)

-----------------------------------------------------------------------------
(* migrateLocal and runSqlMigrations.                                       *)

\* the schema command is not running
PlannerIdle ==
  /\ live = EmptyDb
  /\ before = EmptyDb
  /\ target = EmptyDb
  /\ pristine = EmptyDb
  /\ steps = <<>>
  /\ recreatedTables = <<>>
  /\ batchOk = TRUE
  /\ ppc = "idle"

RInit ==
  /\ dir \in Directories
  /\ rdb = [exists |-> FALSE, rows |-> <<>>, objects |-> {}]
  /\ rpc = "idle"
  /\ migrations = <<>>
  /\ appliedMigrations = <<>>
  /\ idx = 0
  /\ logged = <<>>
  /\ handed = <<>>
  /\ execCount = [i \in DOMAIN dir |-> 0]
  /\ runs = 0
  /\ edited = {}
  /\ PlannerIdle
  /\ NormalizerIdle
  /\ SplitterIdle
  /\ RemoteIdle

Logged(kind, migration) ==
  [kind |-> kind, version |-> migration.version, name |-> migration.name]

\* what the loop moves to after the file at position i
AfterFile(i) == IF i >= Len(migrations) THEN "done" ELSE "loop"

\* migrateLocal up to the loop of runSqlMigrations: the rows are read (an
\* error reads as no rows), the user confirms, the table is created
StartRun(readOk, confirm, engineOk) ==
  /\ rpc # "loop"
  /\ runs < MaxRuns
  /\ LET files == collectMigrations(dir)
         applied == IF rdb.exists /\ readOk THEN rdb.rows ELSE <<>>
         migrationsToApply ==
           SelectSeq(files, LAMBDA m : ~\E k \in DOMAIN applied : applied[k].name = m.name)
         query == CreateMigrationTableSql(MIGRATION_TABLE)
         r == executeQueries(rdb, <<query>>, engineOk)
     IN /\ migrations' = files
        /\ appliedMigrations' = applied
        /\ IF Len(migrationsToApply) > 0 /\ ~confirm
             THEN /\ rpc' = "aborted"
                  /\ handed' = <<>>
                  /\ rdb' = rdb
           ELSE IF Len(migrationsToApply) > 0
             THEN /\ handed' = <<[file |-> 0, content |-> <<>>, queries |-> <<query>>,
                                   ok |-> r.ok]>>
                  /\ rdb' = r.db
                  /\ rpc' = IF r.ok THEN "loop" ELSE "raised"
           ELSE /\ handed' = <<>>
                /\ rdb' = rdb
                /\ rpc' = IF Len(files) > 0 THEN "loop" ELSE "done"
  /\ idx' = 1
  /\ logged' = <<>>
  /\ runs' = runs + 1
  /\ UNCHANGED <<dir, execCount, edited>>
  /\ UNCHANGED <<pvars, nvars, svars, mvars>>

\* one turn of the loop over migrations
ProcessFile(engineOk) ==
  /\ rpc = "loop"
  /\ LET migration == migrations[idx]
         content == dir[migration.file].content
         hash == Hash(content)
         lastMigration == SelectSeq(appliedMigrations, LAMBDA a : a.name = migration.name)
         sql == content \o <<";">>
                  \o InsertMigrationSql(MIGRATION_TABLE, migration.name, migration.version, hash)
         queries == splitSqlQuery(sql)
         r == executeQueries(rdb, queries.queries, engineOk)
     IN IF lastMigration # <<>>
          THEN /\ logged' = Append(logged,
                    Logged(IF lastMigration[1].hash # hash THEN "modified" ELSE "applied",
                           migration))
               /\ idx' = idx + 1
               /\ rpc' = AfterFile(idx)
               /\ UNCHANGED <<rdb, handed, execCount>>
        ELSE IF ~queries.ok
          THEN /\ logged' = Append(logged, Logged("failed", migration))
               /\ rpc' = "raised"
               /\ UNCHANGED <<rdb, handed, execCount, idx>>
        ELSE /\ handed' = Append(handed,
                    [file |-> migration.file, content |-> content,
                     queries |-> queries.queries, ok |-> r.ok])
             /\ rdb' = r.db
             /\ execCount' = IF r.ok THEN [execCount EXCEPT ![migration.file] = @ + 1]
                             ELSE execCount
             /\ logged' = Append(logged, Logged(IF r.ok THEN "ok" ELSE "failed", migration))
             /\ rpc' = IF r.ok THEN AfterFile(idx) ELSE "raised"
             /\ idx' = IF r.ok THEN idx + 1 ELSE idx
  /\ UNCHANGED <<dir, migrations, appliedMigrations, runs, edited>>
  /\ UNCHANGED <<pvars, nvars, svars, mvars>>

\* between two runs the user edits a migration file, once
EditFile(i) ==
  /\ rpc # "loop"
  /\ edited = {}
  /\ dir[i].sql
  /\ dir' = [dir EXCEPT ![i].content = Append(@, " ")]
  /\ edited' = {i}
  /\ UNCHANGED <<rdb, rpc, migrations, appliedMigrations, idx, logged, handed, execCount, runs>>
  /\ UNCHANGED <<pvars, nvars, svars, mvars>>

RNext ==
  \/ \E readOk, confirm, engineOk \in BOOLEAN : StartRun(readOk, confirm, engineOk)
  \/ \E engineOk \in BOOLEAN : ProcessFile(engineOk)
  \/ \E i \in DOMAIN dir : EditFile(i)

RunSpec == RInit /\ [][RNext]_vars

-----------------------------------------------------------------------------
(* Properties of the runner.                                                *)

RecordedWithHash(i) ==
  \E k \in DOMAIN rdb.rows :
    rdb.rows[k].name = dir[i].name /\ rdb.rows[k].hash = Hash(dir[i].content)

\* C4: as long as no file is modified, the batch of a migration file succeeds
\* at most once over all the runs, and a file whose batch has succeeded is in
\* the bookkeeping table under its name with its hash
C4_RunExactlyOnce ==
  edited = {} =>
    \A i \in DOMAIN dir :
      /\ execCount[i] <= 1
      /\ execCount[i] >= 1 => RecordedWithHash(i)

\* the loop is at a file whose name is in the bookkeeping table with another hash
TamperedFile ==
  /\ rpc = "loop"
  /\ \E k \in DOMAIN rdb.rows :
       /\ rdb.rows[k].name = migrations[idx].name
       /\ rdb.rows[k].hash # Hash(dir[migrations[idx].file].content)

\* C5: a file whose name is recorded with another hash is reported as
\* modified, nothing of it is handed to the executor, the loop goes on; and
\* no step changes or removes a bookkeeping row
C5_TamperDetection ==
  [][ /\ TamperedFile =>
           /\ logged' = Append(logged, Logged("modified", migrations[idx]))
           /\ handed' = handed
           /\ rpc' \in {"loop", "done"}
      /\ \A k \in DOMAIN rdb.rows : k \in DOMAIN rdb'.rows /\ rdb'.rows[k] = rdb.rows[k]
    ]_vars

\* C6: every batch handed to the executor for a migration file is the
\* statements of the file followed by the bookkeeping INSERT, the last
\* statement of the batch and a statement of its own
C6_BookkeepingInBatch ==
  \A k \in DOMAIN handed :
    handed[k].file # 0 =>
      handed[k].queries =
        Append(splitSqlIntoStatements(handed[k].content),
               InsertMigrationSql(MIGRATION_TABLE, dir[handed[k].file].name,
                                  dir[handed[k].file].version, Hash(handed[k].content)))

\* the position of file f in the order the loop follows
OrderOf(f) == CHOOSE i \in DOMAIN migrations : migrations[i].file = f

RowsInsertedBy(queries) == {RowOf(q) : q \in {x \in Range(queries) : IsInsertMigration(x)}}

\* C7: files are taken in ascending version order; a batch that fails is the
\* last one of its run and the run has raised; what the batches before it
\* recorded is still recorded
C7_AbortOnFirstFailure ==
  /\ \A i, j \in DOMAIN migrations : i < j => migrations[i].version <= migrations[j].version
  /\ \A k, l \in DOMAIN handed :
       (k < l /\ handed[k].file # 0) => OrderOf(handed[k].file) < OrderOf(handed[l].file)
  /\ \A k \in DOMAIN handed : ~handed[k].ok => (k = Len(handed) /\ rpc = "raised")
  /\ \A k \in DOMAIN handed :
       handed[k].ok => RowsInsertedBy(handed[k].queries) \subseteq Range(rdb.rows)

\* the run raised on the second file of three, the first one applied and
\* recorded, the third one never reached
C7_Witness ==
  /\ rpc = "raised"
  /\ Len(migrations) = 3
  /\ idx = 2
  /\ Len(handed) = 3
  /\ handed[2].ok /\ ~handed[3].ok
  /\ RowsInsertedBy(handed[2].queries) # {}
  /\ dir[1].version > dir[2].version

-----------------------------------------------------------------------------
(* normalizeSql on a text, character by character: the four replace calls  *)
(* and the trim of utils.ts, each a left-to-right scan for the leftmost     *)
(* match as String.prototype.replace with a /g pattern does.                *)

IsWordChar(c) == c \in Letters \cup Digits \cup {"_"}

\* the least index >= from at which sql holds c, 0 when there is none
NextIndexOf(sql, c, from) ==
  LET hits == {i \in from..Len(sql) : sql[i] = c}
  IN IF hits = {} THEN 0 ELSE CHOOSE i \in hits : \A j \in hits : i <= j

\* the number of characters satisfying P at the head of sql
RunLength(sql, P(_)) ==
  LET stops == {i \in 1..Len(sql) : ~P(sql[i])}
  IN IF stops = {} THEN Len(sql) ELSE (CHOOSE i \in stops : \A j \in stops : i <= j) - 1

Drop(sql, n) == SubSeq(sql, n + 1, Len(sql))

\* .replace(/--[^\n]*\n/g, '')
RECURSIVE removeLineComments(_)
removeLineComments(sql) ==
  IF sql = <<>> THEN <<>>
  ELSE LET nl == NextIndexOf(sql, "\n", 3)
       IN IF Len(sql) >= 2 /\ sql[1] = "-" /\ sql[2] = "-" /\ nl # 0
          THEN removeLineComments(Drop(sql, nl))
          ELSE <<Head(sql)>> \o removeLineComments(Tail(sql))

\* .replace(/\s+/g, ' ')
RECURSIVE collapseWhitespace(_)
collapseWhitespace(sql) ==
  IF sql = <<>> THEN <<>>
  ELSE IF IsSpace(Head(sql))
    THEN <<" ">> \o collapseWhitespace(Drop(sql, RunLength(sql, IsSpace)))
    ELSE <<Head(sql)>> \o collapseWhitespace(Tail(sql))

IsBlank(c) == c = " "
IsPunctuation(c) == c \in {"(", ")", ","}

\* .replace(/ *([(),]) */g, '$1')
RECURSIVE tightenPunctuation(_)
tightenPunctuation(sql) ==
  IF sql = <<>> THEN <<>>
  ELSE LET lead == RunLength(sql, IsBlank)
           rest == Drop(sql, lead)
       IN IF rest # <<>> /\ IsPunctuation(Head(rest))
          THEN <<Head(rest)>>
               \o tightenPunctuation(Drop(Tail(rest), RunLength(Tail(rest), IsBlank)))
          ELSE <<Head(sql)>> \o tightenPunctuation(Tail(sql))

DoubleQuote == "\""

\* .replace(/"(\w+)"/g, '$1')
RECURSIVE unquoteWords(_)
unquoteWords(sql) ==
  IF sql = <<>> THEN <<>>
  ELSE LET word == RunLength(Tail(sql), IsWordChar)
       IN IF /\ Head(sql) = DoubleQuote
             /\ word >= 1
             /\ Len(sql) >= word + 2
             /\ sql[word + 2] = DoubleQuote
          THEN SubSeq(sql, 2, word + 1) \o unquoteWords(Drop(sql, word + 2))
          ELSE <<Head(sql)>> \o unquoteWords(Tail(sql))

normalizeSqlText(sql) ==
  trim(unquoteWords(tightenPunctuation(collapseWhitespace(removeLineComments(sql)))))

NormMaxLen == 5

NormAlphabet == {DoubleQuote, "a", " ", "-", "\n", "("}

NormTexts == UNION {[1..n -> NormAlphabet] : n \in 0..NormMaxLen}

NInit ==
  /\ nsql \in NormTexts
  /\ nresults = <<>>
  /\ PlannerIdle
  /\ RunnerIdle
  /\ SplitterIdle
  /\ RemoteIdle

\* normalizeSql(sql), and normalizeSql of what it returned
Normalize ==
  /\ Len(nresults) < 2
  /\ nresults' = Append(nresults,
       normalizeSqlText(IF nresults = <<>> THEN nsql ELSE nresults[Len(nresults)]))
  /\ UNCHANGED <<nsql, pvars, rvars, svars, mvars>>

NNext == Normalize

NormSpec == NInit /\ [][NNext]_vars

\* C20: normalizing the result of normalize gives that result again
C20_NormalizeIdempotent ==
  Len(nresults) = 2 => nresults[2] = nresults[1]

-----------------------------------------------------------------------------
(* The name of a generated migration: the file name the schema command     *)
(* writes, and what collectMigrations reads back from it.                  *)

IsFileNameChar(c) == c \in Letters \cup Digits \cup {"-", "_"}

\* name.replace(/[^a-zA-Z0-9-_]/g, '_')
sanitizeName(name) ==
  [i \in DOMAIN name |-> IF IsFileNameChar(name[i]) THEN name[i] ELSE "_"]

\* version.toString()
RECURSIVE decimal(_)
decimal(n) ==
  IF n < 10 THEN <<ToString(n)>> ELSE decimal(n \div 10) \o <<ToString(n % 10)>>

\* str.padStart(width, '0')
RECURSIVE padStart(_, _)
padStart(str, width) ==
  IF Len(str) >= width THEN str ELSE padStart(<<"0">> \o str, width)

SqlSuffix == <<".", "s", "q", "l">>

migrationFileName(version, name) ==
  padStart(decimal(version), 4) \o <<"-">> \o sanitizeName(name) \o SqlSuffix

\* parseInt(digits, 10)
RECURSIVE parseInt(_)
parseInt(digits) ==
  IF digits = <<>> THEN 0
  ELSE 10 * parseInt(SubSeq(digits, 1, Len(digits) - 1))
       + (CHOOSE d \in 0..9 : ToString(d) = digits[Len(digits)])

\* file.match(/^(\d+)[-_]([a-zA-Z0-9-_]+)\.sql$/): [ok, version, name]
matchFilePattern(file) ==
  LET stem == SubSeq(file, 1, Len(file) - Len(SqlSuffix))
      d == RunLength(stem, LAMBDA c : c \in Digits)
      rest == Drop(stem, d + 1)
      noMatch == [ok |-> FALSE, version |-> 0, name |-> <<>>]
  IN IF ~EndsWith(file, SqlSuffix) THEN noMatch
     ELSE IF d = 0 \/ d >= Len(stem) THEN noMatch
     ELSE IF stem[d + 1] \notin {"-", "_"} THEN noMatch
     ELSE IF rest = <<>> \/ \E i \in DOMAIN rest : ~IsFileNameChar(rest[i]) THEN noMatch
     ELSE [ok |-> TRUE, version |-> parseInt(SubSeq(stem, 1, d)), name |-> rest]

\* C28: whatever name the user gives, a migration the schema command applies
\* is recorded under the name collectMigrations parses from the file name
\* that was written, with the hash of the written content
C28_GeneratedMigrationRecognised ==
  [][ \A name \in MigrationNames :
        (Apply(name) /\ batchOk') =>
          LET m == matchFilePattern(migrationFileName(1, name))
          IN /\ m.ok
             /\ \E row \in live'.rows[MIGRATION_TABLE] :
                  row.name = m.name /\ row.hash = Hash(sqlLines(steps))
    ]_vars

\* C29: when the bookkeeping table exists and holds rows but reading them
\* fails, the run raises and hands nothing to the executor
C29_UnreadableHistoryPropagates ==
  [][ \A confirm, engineOk \in BOOLEAN :
        (rdb.exists /\ rdb.rows # <<>> /\ StartRun(FALSE, confirm, engineOk)) =>
          (rpc' = "raised" /\ handed' = <<>>)
    ]_vars

-----------------------------------------------------------------------------
(* splitSqlQuery on texts of its own: a text is a sequence of statements,  *)
(* each followed by a semicolon, as sqlite3 .dump or a migration file      *)
(* holds them, optionally between BEGIN TRANSACTION; and COMMIT;.          *)

MaxStatements == 2

\* text: the statement; kept: the statement without its comments, as the
\* splitter hands it on (sql.ts 97-118); closed: every block it opens is
\* closed; txn: it is a transaction statement
Shape(text, kept, closed, txn) ==
  [text |-> text, kept |-> kept, closed |-> closed, txn |-> txn]

\* a statement of its own
Plain ==
  Shape(<<"A">>,
        <<"A">>,
        TRUE, FALSE)

\* a semicolon in a single-quoted string
SingleQuoted ==
  Shape(<<"A", " ", "'", ";", "'">>,
        <<"A", " ", "'", ";", "'">>,
        TRUE, FALSE)

\* a semicolon in a double-quoted string
DoubleQuoted ==
  Shape(<<"A", " ", "\"", ";", "\"">>,
        <<"A", " ", "\"", ";", "\"">>,
        TRUE, FALSE)

\* a semicolon in a backtick-quoted string
BacktickQuoted ==
  Shape(<<"A", " ", Backtick, ";", Backtick>>,
        <<"A", " ", Backtick, ";", Backtick>>,
        TRUE, FALSE)

\* a semicolon in a dollar-quoted block
DollarQuoted ==
  Shape(<<"A", " ", "$", "$", ";", "$", "$">>,
        <<"A", " ", "$", "$", ";", "$", "$">>,
        TRUE, FALSE)

\* a semicolon in a line comment
LineComment ==
  Shape(<<"A", " ", "-", "-", ";", "\n", "B">>,
        <<"A", " ", "\n", "B">>,
        TRUE, FALSE)

\* a semicolon in a block comment
BlockComment ==
  Shape(<<"A", " ", "/", "*", ";", "*", "/", "B">>,
        <<"A", " ", "B">>,
        TRUE, FALSE)

\* CREATE TRIGGER .. BEGIN A; END
Trigger ==
  Shape(<<"T", " ", "B", "E", "G", "I", "N", " ", "A", ";", " ", "E", "N", "D">>,
        <<"T", " ", "B", "E", "G", "I", "N", " ", "A", ";", " ", "E", "N", "D">>,
        TRUE, FALSE)

\* the same with the keywords in lower case
TriggerLower ==
  Shape(<<"T", " ", "b", "e", "g", "i", "n", " ", "A", ";", " ", "e", "n", "d">>,
        <<"T", " ", "b", "e", "g", "i", "n", " ", "A", ";", " ", "e", "n", "d">>,
        TRUE, FALSE)

\* a CASE .. END inside a BEGIN .. END
Nested ==
  Shape(<<"T", " ", "B", "E", "G", "I", "N", " ", "S", " ", "C", "A", "S", "E", " ", "W", " ", "E", "N", "D", ";", " ", "E", "N", "D">>,
        <<"T", " ", "B", "E", "G", "I", "N", " ", "S", " ", "C", "A", "S", "E", " ", "W", " ", "E", "N", "D", ";", " ", "E", "N", "D">>,
        TRUE, FALSE)

\* a statement that ends with a numbered parameter
Parameter ==
  Shape(<<"A", " ", "$", "1">>,
        <<"A", " ", "$", "1">>,
        TRUE, FALSE)

\* a BEGIN block that is never closed
Unclosed ==
  Shape(<<"T", " ", "B", "E", "G", "I", "N", " ", "A">>,
        <<"T", " ", "B", "E", "G", "I", "N", " ", "A">>,
        FALSE, FALSE)

\* a BEGIN TRANSACTION in the middle of the file
BeginTransaction ==
  Shape(<<"B", "E", "G", "I", "N", " ", "T", "R", "A", "N", "S", "A", "C", "T", "I", "O", "N">>,
        <<"B", "E", "G", "I", "N", " ", "T", "R", "A", "N", "S", "A", "C", "T", "I", "O", "N">>,
        TRUE, TRUE)

\* the text COMMIT; inside a string literal
LiteralCommit ==
  Shape(<<"A", " ", "'", "C", "O", "M", "M", "I", "T", ";", "'">>,
        <<"A", " ", "'", "C", "O", "M", "M", "I", "T", ";", "'">>,
        TRUE, FALSE)

Shapes ==
  {Plain, SingleQuoted, DoubleQuoted, BacktickQuoted, DollarQuoted,
   LineComment, BlockComment, Trigger, TriggerLower, Nested,
   Parameter, Unclosed, BeginTransaction, LiteralCommit}

SplitInputs ==
  {[wrapped |-> w, stmts |-> q] :
     w \in BOOLEAN, q \in UNION {[1..n -> Shapes] : n \in 1..MaxStatements}}

RECURSIVE BodyText(_)
BodyText(stmts) ==
  IF stmts = <<>> THEN <<>> ELSE Head(stmts).text \o <<";">> \o BodyText(Tail(stmts))

\* the text of the file
Text(input) ==
  IF input.wrapped
  THEN Append(BEGIN_TRANSACTION, ";") \o BodyText(input.stmts) \o COMMIT_STMT
  ELSE BodyText(input.stmts)

SInit ==
  /\ sinput \in SplitInputs
  /\ sresult = <<>>
  /\ spc = "input"
  /\ PlannerIdle
  /\ RunnerIdle
  /\ NormalizerIdle
  /\ RemoteIdle

\* const queries = splitSqlQuery(sql)
Split ==
  /\ spc = "input"
  /\ sresult' = <<[trimmed |-> trimSqlQuery(Text(sinput)),
                   split |-> splitSqlQuery(Text(sinput))]>>
  /\ spc' = "split"
  /\ UNCHANGED <<sinput, pvars, rvars, nvars, mvars>>

SNext == Split

SplitSpec == SInit /\ [][SNext]_vars

\* a file of complete statements without transaction statements
WellFormed(input) ==
  /\ ~input.wrapped
  /\ \A k \in DOMAIN input.stmts : input.stmts[k].closed /\ ~input.stmts[k].txn

\* a statement as returned: the single statement of a file keeps its semicolon
SameStatement(query, kept) == query = kept \/ query = Append(kept, ";")

\* C21: a file of complete statements is split at the semicolons that end
\* its statements and at no other; a semicolon inside a string, a
\* dollar-quoted block, a comment or a BEGIN/CASE .. END block, in either
\* letter case, ends nothing
C21_SplitAtTopLevelSemicolons ==
  (spc = "split" /\ WellFormed(sinput)) =>
    LET r == sresult[1].split
    IN /\ r.ok
       /\ Len(r.queries) = Len(sinput.stmts)
       /\ \A k \in DOMAIN sinput.stmts : SameStatement(r.queries[k], sinput.stmts[k].kept)

\* C22: a file that opens a BEGIN .. END block and never closes it is
\* answered with an error, not with statements
C22_UnclosedBlockIsAnError ==
  (/\ spc = "split"
   /\ ~sinput.wrapped
   /\ \A k \in DOMAIN sinput.stmts : ~sinput.stmts[k].txn
   /\ \E k \in DOMAIN sinput.stmts : ~sinput.stmts[k].closed) =>
    ~sresult[1].split.ok

\* the statements between the head and the tail: those of a file that
\* is wrapped, and otherwise all but the first BEGIN TRANSACTION
Body(input) ==
  LET txns == {k \in DOMAIN input.stmts : input.stmts[k].txn}
      first == CHOOSE k \in txns : \A j \in txns : k <= j
  IN IF input.wrapped \/ txns = {} THEN input.stmts
     ELSE SubSeq(input.stmts, 1, first - 1) \o SubSeq(input.stmts, first + 1, Len(input.stmts))

\* C23: the strip removes the first BEGIN TRANSACTION; and the COMMIT; at
\* the tail and nothing else; a BEGIN TRANSACTION left after that is an
\* error and no statement is returned; a file without one is left as it is
C23_TransactionStripping ==
  spc = "split" =>
    LET r == sresult[1]
        body == Body(sinput)
    IN IF \E k \in DOMAIN body : body[k].txn
       THEN ~r.trimmed.ok /\ ~r.split.ok /\ r.split.queries = <<>>
       ELSE r.trimmed.ok /\ r.trimmed.sql = BodyText(body)

-----------------------------------------------------------------------------
(* migrateRemote: executeQueries against the remote service.  Every await  *)
(* of a fetch is one action; the response is the server's to choose, in    *)
(* the shapes database.ts declares for it.                                  *)

MaxBatches == 2

\* crypto.createHash('md5').update(sql).digest('hex'), one per batch
Md5(batch) == <<"e", ToString(batch)>>

Quoted(str) == <<"\"">> \o str \o <<"\"">>

\* uploadResponse.headers.get('etag') is null
NoEtag == <<>>

EtagResponses(batch) ==
  {NoEtag, Md5(batch), Quoted(Md5(batch)), Md5(batch + 1), Quoted(Md5(batch + 1)),
   <<"W", "/">> \o Quoted(Md5(batch))}

Bookmarks == {NoBookmark, "b1", "b2"}

\* etagResponse.replace(/^"|"$/g, '')
stripQuotes(str) ==
  LET a == IF str # <<>> /\ Head(str) = "\"" THEN Tail(str) ELSE str
  IN IF a # <<>> /\ a[Len(a)] = "\"" THEN SubSeq(a, 1, Len(a) - 1) ELSE a

\* the two tests of ingest on the ETag of the upload response
etagAcceptedUnchecked(etag, etagResponse) == TRUE
etagAccepted(etag, etagResponse) ==
  /\ etagResponse # NoEtag
  /\ etag = stripQuotes(etagResponse)

\* the head of the while loop: where executeQueries goes with this state
whileNotCompletedNoThrow(state) ==
  IF state.completed THEN "return" ELSE "poll"
whileNotCompleted(state) ==
  IF state.completed THEN "return"
  ELSE IF state.bookmark = NoBookmark THEN "raised"
  ELSE "poll"

Request(kind, response) == [batch |-> mbatch, kind |-> kind] @@ response

\* executeQueries goes on from the head of the loop: it polls, throws, or
\* returns to runSqlMigrations, which calls it again for the next file
Continue(state) ==
  LET to == whileNotCompleted(state)
  IN /\ mstate' = state
     /\ IF to = "return"
        THEN IF mbatch < MaxBatches
             THEN mpc' = "migrate" /\ mbatch' = mbatch + 1
             ELSE mpc' = "done" /\ mbatch' = mbatch
        ELSE mpc' = to /\ mbatch' = mbatch

MigrateResponses ==
  {[ok |-> FALSE, completed |-> FALSE, uploadUrl |-> FALSE, filename |-> FALSE]}
  \cup [ok : {TRUE}, completed : BOOLEAN, uploadUrl : BOOLEAN, filename : BOOLEAN]

UploadResponses(batch) ==
  {[ok |-> FALSE, etag |-> NoEtag]} \cup [ok : {TRUE}, etag : EtagResponses(batch)]

FinalizeResponses ==
  {[ok |-> FALSE, completed |-> FALSE, bookmark |-> NoBookmark]}
  \cup [ok : {TRUE}, completed : BOOLEAN, bookmark : Bookmarks]

StatusResponses ==
  {[ok |-> FALSE, completed |-> FALSE]} \cup [ok : {TRUE}, completed : BOOLEAN]

MInit ==
  /\ mpc = "migrate"
  /\ mbatch = 1
  /\ mstate = [completed |-> FALSE, bookmark |-> NoBookmark]
  /\ minfo = [completed |-> FALSE, uploadUrl |-> FALSE, filename |-> FALSE]
  /\ mlog = {}
  /\ serverDone = FALSE
  /\ PlannerIdle
  /\ RunnerIdle
  /\ NormalizerIdle
  /\ SplitterIdle

\* database.migrate({ etag }) and what follows it up to the next fetch
Migrate(response) ==
  /\ mpc = "migrate"
  /\ mlog' = mlog \cup {Request("migrate", [etag |-> Md5(mbatch)] @@ response)}
  /\ IF ~response.ok
     THEN mpc' = "raised" /\ UNCHANGED <<mbatch, mstate, minfo>>
     ELSE /\ minfo' = [completed |-> response.completed, uploadUrl |-> response.uploadUrl,
                       filename |-> response.filename]
          /\ IF ~response.completed /\ response.uploadUrl /\ response.filename
             THEN /\ mpc' = "upload"
                  /\ mstate' = [completed |-> response.completed, bookmark |-> NoBookmark]
                  /\ mbatch' = mbatch
             ELSE Continue([completed |-> response.completed, bookmark |-> NoBookmark])
  /\ UNCHANGED <<serverDone, pvars, rvars, nvars, svars>>

\* database.ingest: fetch(uploadUrl, { method: 'PUT', .. }) and the tests on
\* its response
Upload(response) ==
  /\ mpc = "upload"
  /\ mlog' = mlog \cup {Request("upload", response)}
  /\ mpc' = IF response.ok /\ etagAccepted(Md5(mbatch), response.etag)
            THEN "finalize" ELSE "raised"
  /\ UNCHANGED <<mbatch, mstate, minfo, serverDone, pvars, rvars, nvars, svars>>

\* database.ingest: PUT /database/migrate { etag, filename }, and what
\* follows it up to the next fetch
Finalize(response) ==
  /\ mpc = "finalize"
  /\ mlog' = mlog \cup {Request("finalize", [etag |-> Md5(mbatch)] @@ response)}
  /\ IF ~response.ok
     THEN mpc' = "raised" /\ UNCHANGED <<mbatch, mstate>>
     ELSE Continue([completed |-> response.completed, bookmark |-> response.bookmark])
  /\ UNCHANGED <<minfo, serverDone, pvars, rvars, nvars, svars>>

\* database.migrationStatus({ bookmark: state.bookmark }), and what follows
\* it up to the next fetch; a server that has finished reports completed
Poll(response) ==
  /\ mpc = "poll"
  /\ serverDone => (~response.ok \/ response.completed)
  /\ mlog' = mlog \cup {Request("status", [bookmark |-> mstate.bookmark] @@ response)}
  /\ IF ~response.ok
     THEN mpc' = "raised" /\ UNCHANGED <<mbatch, mstate>>
     ELSE Continue([mstate EXCEPT !.completed = response.completed])
  /\ UNCHANGED <<minfo, serverDone, pvars, rvars, nvars, svars>>

\* the remote database finishes the migration it was given
ServerCompletes ==
  /\ mpc \in {"migrate", "upload", "finalize", "poll"}
  /\ ~serverDone
  /\ serverDone' = TRUE
  /\ UNCHANGED <<mpc, mbatch, mstate, minfo, mlog, pvars, rvars, nvars, svars>>

\* the steps of the CLI
ClientStep ==
  \/ \E response \in MigrateResponses : Migrate(response)
  \/ \E response \in UploadResponses(mbatch) : Upload(response)
  \/ \E response \in FinalizeResponses : Finalize(response)
  \/ \E response \in StatusResponses : Poll(response)

MNext ==
  \/ ClientStep
  \/ ServerCompletes

RemoteSpec == MInit /\ [][MNext]_vars

\* a step of the CLI on a response the server gave with a 2xx status
AnsweredStep ==
  \/ \E response \in MigrateResponses : response.ok /\ Migrate(response)
  \/ \E response \in UploadResponses(mbatch) : response.ok /\ Upload(response)
  \/ \E response \in FinalizeResponses : response.ok /\ Finalize(response)
  \/ \E response \in StatusResponses : response.ok /\ Poll(response)

\* a request the server can answer is answered in the end, and the
\* continuation of the await runs
RemoteFairSpec == RemoteSpec /\ WF_vars(AnsweredStep)

-----------------------------------------------------------------------------
(* Properties of the remote apply.                                          *)

Sent(batch, kinds) == {r \in mlog : r.batch = batch /\ r.kind \in kinds}

UploadAccepted(r) ==
  r.ok /\ r.etag # NoEtag /\ stripQuotes(r.etag) = Md5(r.batch)

\* C24: a finalize request has been sent only if the upload of its batch
\* was answered 2xx with the submitted ETag, quotes stripped; an upload
\* answered otherwise has raised, with no finalize or status request of
\* that batch and no request of a later batch
C24_FinalizeAfterMatchingUpload ==
  \A r \in mlog :
    /\ r.kind = "finalize" =>
         /\ r.etag = Md5(r.batch)
         /\ \E u \in Sent(r.batch, {"upload"}) : UploadAccepted(u)
    /\ (r.kind = "upload" /\ ~UploadAccepted(r)) =>
         /\ mpc = "raised"
         /\ mbatch = r.batch
         /\ Sent(r.batch, {"finalize", "status"}) = {}
         /\ \A later \in mlog : later.batch <= r.batch

\* the second batch raised on an ETag that does not match, after the first
\* one was finalized on an ETag that came back in quotes
C24_Witness ==
  /\ mpc = "raised"
  /\ \E u \in Sent(2, {"upload"}) : u.ok /\ u.etag = Quoted(Md5(3))
  /\ \E u \in Sent(1, {"upload"}) : u.etag = Quoted(Md5(1))
  /\ Sent(1, {"finalize"}) # {}

\* executeQueries has returned for this batch
Returned(batch) == batch < mbatch \/ (batch = mbatch /\ mpc = "done")

Completed(batch) ==
  \E r \in Sent(batch, {"migrate", "finalize", "status"}) : r.ok /\ r.completed

C25_Safety ==
  /\ \A batch \in 1..MaxBatches : Returned(batch) => Completed(batch)
  /\ \A r \in mlog :
       /\ (r.kind = "migrate" /\ r.ok /\ r.completed) =>
            Sent(r.batch, {"upload", "finalize", "status"}) = {}
       /\ r.kind = "status" =>
            /\ r.bookmark # NoBookmark
            /\ \E f \in Sent(r.batch, {"finalize"}) :
                 f.ok /\ ~f.completed /\ f.bookmark = r.bookmark
       /\ (r.kind = "finalize" /\ r.ok /\ ~r.completed /\ r.bookmark = NoBookmark) =>
            /\ mpc = "raised" /\ mbatch = r.batch
            /\ Sent(r.batch, {"status"}) = {}
       /\ (r.kind = "migrate" /\ r.ok /\ ~r.completed /\ ~(r.uploadUrl /\ r.filename)) =>
            /\ mpc = "raised" /\ mbatch = r.batch
            /\ Sent(r.batch, {"upload", "finalize", "status"}) = {}

\* C25: executeQueries returns only after a response with completed = true;
\* a first answer that is completed is followed by no other request; status
\* is polled with the bookmark finalize returned; an answer that is not
\* completed and has no bookmark, or no uploadUrl/filename, raises; and once
\* the server has finished, the run comes to its end
C25_RemoteCompletion ==
  /\ []C25_Safety
  /\ serverDone ~> (mpc \in {"done", "raised"})

\* the run is done, its last batch after a status that was not completed
\* and one that was, its first batch completed by the first answer
C25_Witness ==
  /\ mpc = "done"
  /\ \E r \in Sent(1, {"migrate"}) : r.ok /\ r.completed
  /\ \E r \in Sent(MaxBatches, {"status"}) : r.ok /\ ~r.completed
  /\ \E r \in Sent(MaxBatches, {"status"}) : r.ok /\ r.completed
  /\ serverDone

=============================================================================
